---- MODULE Spec2Model ----
(***************************************************************************)
(* LAMC compiler front end: lexer (lexer.c), recursive-descent parser      *)
(* (parser.c) and syntax-tree constructors (ast.c).                        *)
(*                                                                         *)
(* A source text is a sequence of one-character strings followed by an     *)
(* implicit terminating NUL.  Every C function is an operator with the     *)
(* same name; a function that changes the Parser returns the record        *)
(* [node, p] (its return value and the Parser after the call).  The loop   *)
(* of parser_parse is the state machine: one action per step of the loop.  *)
(* ast_free_node is the sequence of its frees and reads of memory, which   *)
(* main applies to the program it has parsed and the tests of the tree     *)
(* (test_ast.c) to the trees they build by hand.                           *)
(***************************************************************************)
EXTENDS Integers, Sequences, FiniteSets, TLC

(* ===================== bounds of the model ============================= *)

\* number of lexical fragments concatenated into an enumerated source text
MaxLen == 3
\* number of diagnostics the model keeps of stderr (later ones are dropped)
MaxErrors == 3

\* number of postfix operations in an enumerated chain
MaxChain == 3

\* number of items in a list of a tree built by hand
MaxItems == 2

(* ===================== characters ====================================== *)

NUL == "NUL"

Digits == {"0", "1", "2", "3", "4", "5", "6", "7", "8", "9"}

\* the letters for which isalpha of <ctype.h> holds in the "C" locale
Letters ==
    {"a", "b", "c", "d", "e", "f", "g", "h", "i", "j", "k", "l", "m", "n",
     "o", "p", "q", "r", "s", "t", "u", "v", "w", "x", "y", "z", "A", "B",
     "C", "D", "E", "F", "G", "H", "I", "J", "K", "L", "M", "N", "O", "P",
     "Q", "R", "S", "T", "U", "V", "W", "X", "Y", "Z"}

isdigit(c) == c \in Digits

isalpha(c) == c \in Letters

isalnum(c) == isalpha(c) \/ isdigit(c)

DigitVal(c) ==
    CASE c = "0" -> 0 [] c = "1" -> 1 [] c = "2" -> 2 [] c = "3" -> 3
      [] c = "4" -> 4 [] c = "5" -> 5 [] c = "6" -> 6 [] c = "7" -> 7
      [] c = "8" -> 8 [] c = "9" -> 9

(* ===================== tokens (token.h, token.c) ======================= *)

make_token(type, lexeme, line, column) ==
    [type |-> type, lexeme |-> lexeme, line |-> line, column |-> column]

\* the lexeme of an error token is the message, not source text
error_token(message, line, column) ==
    [type |-> "TOKEN_ERROR", lexeme |-> <<message>>, line |-> line,
     column |-> column]

(* ===================== evaluation ====================================== *)

\* Let(value, Body) is Body(value), the value being computed once, as a C
\* statement "T v = value;" does before the statements that use v.
Let(value, Body(_)) == CHOOSE chosen \in {Body(v) : v \in {value}} : TRUE

(* ===================== lexer (lexer.c) ================================= *)

lexer_init(source) ==
    [source |-> source, start |-> 1, current |-> 1, line |-> 1, column |-> 1]

CharAt(lexer, i) ==
    IF i <= Len(lexer.source) THEN lexer.source[i] ELSE NUL

peek(lexer) == CharAt(lexer, lexer.current)

is_at_end(lexer) == peek(lexer) = NUL

peek_next(lexer) ==
    IF is_at_end(lexer) THEN NUL ELSE CharAt(lexer, lexer.current + 1)

\* the lexer after advance(); the character returned is peek() before it
advance(lexer) ==
    [lexer EXCEPT !.column = @ + 1, !.current = @ + 1]

\* the lexer after match(lexer, expected)
match(lexer, expected) ==
    IF is_at_end(lexer) \/ peek(lexer) # expected
    THEN lexer
    ELSE [lexer EXCEPT !.current = @ + 1, !.column = @ + 1]

\* the value match(lexer, expected) returns
matches(lexer, expected) == ~is_at_end(lexer) /\ peek(lexer) = expected

RECURSIVE line_comment(_)
\* while (peek(lexer) != '\n' && !is_at_end(lexer)) advance(lexer);
line_comment(lexer) ==
    Let(lexer, LAMBDA l :
        IF peek(l) # "\n" /\ ~is_at_end(l)
        THEN line_comment(advance(l))
        ELSE l)

RECURSIVE block_comment(_)
\* the while loop of a block comment, "/*" having been consumed
block_comment(lexer) ==
    Let(lexer, LAMBDA l :
        CASE is_at_end(l) -> l
          [] peek(l) = "*" /\ peek_next(l) = "/" -> advance(advance(l))
          [] peek(l) = "\n" ->
                 block_comment(advance([l EXCEPT !.line = @ + 1,
                                                 !.column = 0]))
          [] OTHER -> block_comment(advance(l)))

RECURSIVE skip_whitespace(_)
skip_whitespace(lexer) ==
    Let(lexer, LAMBDA l :
        CASE peek(l) \in {" ", "\r", "\t"} -> skip_whitespace(advance(l))
          [] peek(l) = "\n" ->
                 skip_whitespace(advance([l EXCEPT !.line = @ + 1,
                                                   !.column = 0]))
          [] peek(l) = "/" /\ peek_next(l) = "/" ->
                 skip_whitespace(line_comment(l))
          [] peek(l) = "/" /\ peek_next(l) = "*" ->
                 skip_whitespace(block_comment(advance(advance(l))))
          [] OTHER -> l)

Lexeme(lexer) == SubSeq(lexer.source, lexer.start, lexer.current - 1)

make_current_token(lexer, type) ==
    make_token(type, Lexeme(lexer), lexer.line, lexer.column)

check_keyword(lexer, start, rest, type) ==
    IF /\ lexer.current - lexer.start = start + Len(rest)
       /\ SubSeq(Lexeme(lexer), start + 1, start + Len(rest)) = rest
    THEN type
    ELSE "TOKEN_IDENTIFIER"

identifier_type(lexer) ==
    LET lx == Lexeme(lexer)
        n  == Len(lx)
        c0 == lx[1]
        c1 == lx[2]
        c2 == lx[3]
    IN
    CASE c0 = "b" -> check_keyword(lexer, 1, <<"r", "e", "a", "k">>, "TOKEN_BREAK")
      [] c0 = "c" /\ n > 1 /\ c1 = "a" ->
             check_keyword(lexer, 2, <<"t", "c", "h">>, "TOKEN_CATCH")
      [] c0 = "c" /\ n > 1 /\ c1 = "l" ->
             check_keyword(lexer, 2, <<"a", "s", "s">>, "TOKEN_CLASS")
      [] c0 = "c" /\ n > 1 /\ c1 = "o" ->
             check_keyword(lexer, 2, <<"n", "t", "i", "n", "u", "e">>, "TOKEN_CONTINUE")
      [] c0 = "e" /\ n > 1 /\ c1 = "l" ->
             check_keyword(lexer, 2, <<"s", "e">>, "TOKEN_ELSE")
      [] c0 = "e" /\ n > 1 /\ c1 = "x" ->
             check_keyword(lexer, 2, <<"p", "o", "r", "t">>, "TOKEN_EXPORT")
      [] c0 = "f" /\ n > 1 /\ c1 = "a" ->
             check_keyword(lexer, 2, <<"l", "s", "e">>, "TOKEN_FALSE")
      [] c0 = "f" /\ n > 1 /\ c1 = "i" ->
             check_keyword(lexer, 2, <<"n", "a", "l", "l", "y">>, "TOKEN_FINALLY")
      [] c0 = "f" /\ n > 1 /\ c1 = "o" ->
             check_keyword(lexer, 2, <<"r">>, "TOKEN_FOR")
      [] c0 = "f" /\ n > 1 /\ c1 = "u" ->
             check_keyword(lexer, 2, <<"n", "c">>, "TOKEN_FUNC")
      [] c0 = "i" /\ n > 1 /\ c1 = "f" ->
             check_keyword(lexer, 2, <<>>, "TOKEN_IF")
      [] c0 = "i" /\ n > 1 /\ c1 = "m" ->
             check_keyword(lexer, 2, <<"p", "o", "r", "t">>, "TOKEN_IMPORT")
      [] c0 = "i" /\ n > 1 /\ c1 = "n" ->
             check_keyword(lexer, 2, <<>>, "TOKEN_IN")
      [] c0 = "l" -> check_keyword(lexer, 1, <<"o", "o", "p">>, "TOKEN_LOOP")
      [] c0 = "r" ->
             check_keyword(lexer, 1, <<"e", "t", "u", "r", "n">>, "TOKEN_RETURN")
      [] c0 = "t" /\ n > 1 /\ c1 = "h" ->
             check_keyword(lexer, 2, <<"i", "s">>, "TOKEN_THIS")
      [] c0 = "t" /\ n > 2 /\ c1 = "r" /\ c2 = "u" ->
             check_keyword(lexer, 3, <<"e">>, "TOKEN_TRUE")
      [] c0 = "t" /\ n > 2 /\ c1 = "r" /\ c2 = "y" ->
             check_keyword(lexer, 3, <<>>, "TOKEN_TRY")
      [] c0 = "w" -> check_keyword(lexer, 1, <<"h", "i", "l", "e">>, "TOKEN_WHILE")
      [] OTHER -> "TOKEN_IDENTIFIER"

\* every lexing function returns [lexer, tok]
scanned(lexer, type) ==
    [lexer |-> lexer, tok |-> make_current_token(lexer, type)]

RECURSIVE identifier_scan(_)
\* while (isalnum(peek(lexer)) || peek(lexer) == '_') advance(lexer);
identifier_scan(lexer) ==
    Let(lexer, LAMBDA l :
        IF isalnum(peek(l)) \/ peek(l) = "_"
        THEN identifier_scan(advance(l))
        ELSE l)

identifier(lexer) ==
    Let(identifier_scan(lexer), LAMBDA l : scanned(l, identifier_type(l)))

RECURSIVE digits_scan(_)
\* while (isdigit(peek(lexer))) advance(lexer);
digits_scan(lexer) ==
    Let(lexer, LAMBDA l :
        IF isdigit(peek(l)) THEN digits_scan(advance(l)) ELSE l)

number(lexer) ==
    Let(digits_scan(lexer), LAMBDA l :
        IF peek(l) = "." /\ isdigit(peek_next(l))
        THEN Let(digits_scan(advance(l)), LAMBDA f : scanned(f, "TOKEN_FLOAT"))
        ELSE scanned(l, "TOKEN_INT"))

RECURSIVE string_scan(_, _)
\* the while loop of string()
string_scan(lexer, quote) ==
    Let(lexer, LAMBDA l :
        IF peek(l) # quote /\ ~is_at_end(l)
        THEN LET l1 == IF peek(l) = "\n"
                       THEN [l EXCEPT !.line = @ + 1, !.column = 0]
                       ELSE l
                 l2 == IF peek(l1) = "\\" THEN advance(l1) ELSE l1
             IN string_scan(advance(l2), quote)
        ELSE l)

string(lexer, quote) ==
    Let(string_scan(lexer, quote), LAMBDA l :
        IF is_at_end(l)
        THEN [lexer |-> l,
              tok |-> error_token("Unterminated string", l.line, l.column)]
        ELSE scanned(advance(l), "TOKEN_STRING"))

\* make_current_token(lexer, match(lexer, second) ? yes : no)
TwoChar(lexer, second, yes, no) ==
    scanned(match(lexer, second), IF matches(lexer, second) THEN yes ELSE no)

\* lexer_next_token after skip_whitespace
scan_token(lexer) ==
    LET l0 == [lexer EXCEPT !.start = lexer.current]
        c  == peek(lexer)
        l  == advance(l0)
    IN
    CASE c = NUL -> scanned(l0, "TOKEN_EOF")
      [] isalpha(c) \/ c = "_" -> identifier(l)
      [] isdigit(c) -> number(l)
      [] c = "(" -> scanned(l, "TOKEN_LEFT_PAREN")
      [] c = ")" -> scanned(l, "TOKEN_RIGHT_PAREN")
      [] c = "{" -> scanned(l, "TOKEN_LEFT_BRACE")
      [] c = "}" -> scanned(l, "TOKEN_RIGHT_BRACE")
      [] c = "[" -> scanned(l, "TOKEN_LEFT_BRACKET")
      [] c = "]" -> scanned(l, "TOKEN_RIGHT_BRACKET")
      [] c = "," -> scanned(l, "TOKEN_COMMA")
      [] c = ":" -> scanned(l, "TOKEN_COLON")
      [] c = "+" -> scanned(l, "TOKEN_PLUS")
      [] c = "%" -> scanned(l, "TOKEN_PERCENT")
      [] c = "^" -> scanned(l, "TOKEN_CARET")
      [] c = "~" -> scanned(l, "TOKEN_TILDE")
      [] c = "-" -> TwoChar(l, ">", "TOKEN_ARROW", "TOKEN_MINUS")
      [] c = "*" -> scanned(l, "TOKEN_STAR")
      [] c = "/" -> scanned(l, "TOKEN_SLASH")
      [] c = "!" -> TwoChar(l, "=", "TOKEN_NOT_EQUAL", "TOKEN_NOT")
      [] c = "=" -> TwoChar(l, "=", "TOKEN_EQUAL_EQUAL", "TOKEN_EQUAL")
      [] c = "<" -> TwoChar(l, "=", "TOKEN_LESS_EQUAL", "TOKEN_LESS")
      [] c = ">" -> TwoChar(l, "=", "TOKEN_GREATER_EQUAL", "TOKEN_GREATER")
      [] c = "&" -> TwoChar(l, "&", "TOKEN_AND", "TOKEN_AMPERSAND")
      [] c = "|" -> TwoChar(l, "|", "TOKEN_OR", "TOKEN_PIPE")
      [] c = "." /\ matches(l, ".") ->
             TwoChar(match(l, "."), "=", "TOKEN_DOT_DOT_EQUAL", "TOKEN_DOT_DOT")
      [] c = "." -> scanned(l, "TOKEN_DOT")
      [] c \in {"\"", "'"} -> string(l, c)
      [] OTHER ->
             [lexer |-> l,
              tok |-> error_token("Unexpected character", l.line, l.column)]

\* lexer_next_token returns [lexer, tok]: the Lexer after the call, the Token
lexer_next_token(lexer) ==
    Let(skip_whitespace(lexer), LAMBDA l : scan_token(l))

\* lexer_next_token is a function of the Lexer alone.  Scan(lexer) is the
\* sequence of the results of its successive calls from lexer on, up to the
\* first TOKEN_EOF; every later call returns that last result again.
RECURSIVE scan_rest(_)
scan_rest(results) ==
    IF results[Len(results)].tok.type = "TOKEN_EOF" THEN results
    ELSE scan_rest(Append(results,
                          lexer_next_token(results[Len(results)].lexer)))

Scan(lexer) == scan_rest(<<lexer_next_token(lexer)>>)

(* ===================== syntax tree (ast.h, ast.c) ====================== *)

\* a null AstNode pointer
NULL == [type |-> "NULL"]

\* a null char pointer (an absent optional name)
NULL_STR == <<NUL>>

ast_list_create == <<>>

ast_list_append(list, item) == Append(list, item)

ast_create_binary(op, left, right, line, col) ==
    [type |-> "AST_BINARY_EXPR", line |-> line, column |-> col, op |-> op,
     left |-> left, right |-> right]

ast_create_unary(op, operand, line, col) ==
    [type |-> "AST_UNARY_EXPR", line |-> line, column |-> col, op |-> op,
     operand |-> operand]

ast_create_literal_int(value, line, col) ==
    [type |-> "AST_LITERAL_EXPR", line |-> line, column |-> col,
     lit |-> "LIT_INT", int_value |-> value]

ast_create_literal_float(value, line, col) ==
    [type |-> "AST_LITERAL_EXPR", line |-> line, column |-> col,
     lit |-> "LIT_FLOAT", float_value |-> value]

ast_create_literal_string(value, line, col) ==
    [type |-> "AST_LITERAL_EXPR", line |-> line, column |-> col,
     lit |-> "LIT_STRING", string_value |-> value]

ast_create_literal_bool(value, line, col) ==
    [type |-> "AST_LITERAL_EXPR", line |-> line, column |-> col,
     lit |-> "LIT_BOOL", bool_value |-> value]

ast_create_identifier(name, line, col) ==
    [type |-> "AST_IDENTIFIER_EXPR", line |-> line, column |-> col,
     identifier |-> name]

ast_create_call(callee, args, line, col) ==
    [type |-> "AST_CALL_EXPR", line |-> line, column |-> col,
     callee |-> callee, arguments |-> args]

ast_create_index(object, index, line, col) ==
    [type |-> "AST_INDEX_EXPR", line |-> line, column |-> col,
     object |-> object, index |-> index]

ast_create_member(object, member, line, col) ==
    [type |-> "AST_MEMBER_EXPR", line |-> line, column |-> col,
     object |-> object, member |-> member]

ast_create_array(elements, line, col) ==
    [type |-> "AST_ARRAY_EXPR", line |-> line, column |-> col,
     elements |-> elements]

ast_create_var_decl(name, type_name, init, line, col) ==
    [type |-> "AST_VAR_DECL", line |-> line, column |-> col, name |-> name,
     type_name |-> type_name, initializer |-> init]

ast_create_expr_stmt(expr, line, col) ==
    [type |-> "AST_EXPR_STMT", line |-> line, column |-> col,
     expr_stmt |-> expr]

ast_create_if(cond, then_br, else_br, line, col) ==
    [type |-> "AST_IF_STMT", line |-> line, column |-> col,
     condition |-> cond, then_branch |-> then_br, else_branch |-> else_br]

ast_create_while(cond, body, line, col) ==
    [type |-> "AST_WHILE_STMT", line |-> line, column |-> col,
     condition |-> cond, body |-> body]

ast_create_for(var, iter, body, idx, line, col) ==
    [type |-> "AST_FOR_STMT", line |-> line, column |-> col,
     variable |-> var, iterable |-> iter, body |-> body, index_var |-> idx]

ast_create_loop(body, line, col) ==
    [type |-> "AST_LOOP_STMT", line |-> line, column |-> col, body |-> body]

ast_create_return(value, line, col) ==
    [type |-> "AST_RETURN_STMT", line |-> line, column |-> col,
     value |-> value]

ast_create_break(line, col) ==
    [type |-> "AST_BREAK_STMT", line |-> line, column |-> col]

ast_create_continue(line, col) ==
    [type |-> "AST_CONTINUE_STMT", line |-> line, column |-> col]

ast_create_block(stmts, line, col) ==
    [type |-> "AST_BLOCK_STMT", line |-> line, column |-> col,
     statements |-> stmts]

ast_create_function(name, params, body, ret_type, line, col) ==
    [type |-> "AST_FUNCTION_DECL", line |-> line, column |-> col,
     name |-> name, parameters |-> params, body |-> body,
     return_type |-> ret_type]

\* the program node is allocated at line 0, column 0
ast_create_program(decls) ==
    [type |-> "AST_PROGRAM", line |-> 0, column |-> 0, declarations |-> decls]

ast_create_parameter(name, type_name, default_val) ==
    [name |-> name, type_name |-> type_name, default_value |-> default_val]

ast_create_literal_null(line, col) ==
    [type |-> "AST_LITERAL_EXPR", line |-> line, column |-> col,
     lit |-> "LIT_NULL"]

ast_create_dict(entries, line, col) ==
    [type |-> "AST_DICT_EXPR", line |-> line, column |-> col,
     entries |-> entries]

ast_create_assign(target, value, line, col) ==
    [type |-> "AST_ASSIGN_STMT", line |-> line, column |-> col,
     target |-> target, value |-> value]

ast_create_class(name, methods, fields, line, col) ==
    [type |-> "AST_CLASS_DECL", line |-> line, column |-> col, name |-> name,
     methods |-> methods, fields |-> fields]

ast_create_import(module, line, col) ==
    [type |-> "AST_IMPORT_STMT", line |-> line, column |-> col,
     module_name |-> module]

ast_create_dict_entry(key, value) == [key |-> key, value |-> value]

(* ===================== destructors (ast.c) ============================= *)

\* A block of memory is named by the place of its owner in the tree, the
\* path of fields and list positions from the root, and by what it is in
\* that place: the node, a string field, the AstList, its items array, the
\* Parameter or the DictEntry.
Step(field, i) == [field |-> field, i |-> i]

Block(path, what) == [path |-> path, what |-> what]

\* a null AstList pointer
NULL_LIST == <<NULL>>

\* what the destructors do to memory, in order: free(block) and reads of
\* a block
Free(path, what) == <<[op |-> "free", block |-> Block(path, what)]>>

Read(path, what) == <<[op |-> "read", block |-> Block(path, what)]>>

\* free(str): free(NULL) does nothing
free_string(str, path, owner, field) ==
    Read(path, owner) \o (IF str = NULL_STR THEN <<>> ELSE Free(path, field))

\* ast_list_free(list): free(list->items); free(list)
ast_list_free(list, path) ==
    Read(path, "list")
    \o (IF list = <<>> THEN <<>> ELSE Free(path, "items"))
    \o Free(path, "list")

RECURSIVE ast_free_node(_, _)
RECURSIVE free_items(_, _, _, _)

\* ast_free_parameter without free(param->type_name)
ast_free_parameter_leaking(param, path) ==
    free_string(param.name, path, "param", "name")
    \o Read(path, "param")
    \o ast_free_node(param.default_value, Append(path, Step("default_value", 0)))
    \o Free(path, "param")

ast_free_parameter(param, path) ==
    free_string(param.name, path, "param", "name")
    \o free_string(param.type_name, path, "param", "type_name")
    \o Read(path, "param")
    \o ast_free_node(param.default_value, Append(path, Step("default_value", 0)))
    \o Free(path, "param")

ast_free_dict_entry(entry, path) ==
    Read(path, "entry")
    \o ast_free_node(entry.key, Append(path, Step("key", 0)))
    \o Read(path, "entry")
    \o ast_free_node(entry.value, Append(path, Step("value", 0)))
    \o Free(path, "entry")

\* for (i = 0; i < list->count; i++) free the item i; kind is what the
\* items are: nodes, parameters or dictionary entries
free_items(list, path, i, kind) ==
    Read(path, "list")
    \o (IF i > Len(list) THEN <<>>
        ELSE Read(path, "items")
             \o (CASE kind = "param" ->
                          ast_free_parameter(list[i], Append(path, Step("item", i)))
                   [] kind = "entry" ->
                          ast_free_dict_entry(list[i],
                                              Append(path, Step("item", i)))
                   [] OTHER ->
                          ast_free_node(list[i], Append(path, Step("item", i))))
             \o free_items(list, path, i + 1, kind))

\* if (list) { for (...) free the items; ast_list_free(list); }
free_list(list, path, field, kind) ==
    Read(path, "node")
    \o (IF list = NULL_LIST THEN <<>>
        ELSE free_items(list, Append(path, Step(field, 0)), 1, kind)
             \o Read(path, "node")
             \o ast_list_free(list, Append(path, Step(field, 0))))

\* ast_free_node(node->field)
free_child(node, path, field) ==
    Read(path, "node") \o ast_free_node(node[field], Append(path, Step(field, 0)))

ast_free_node(node, path) ==
    IF node = NULL THEN <<>>
    ELSE Read(path, "node")
         \o (CASE node.type = "AST_BINARY_EXPR" ->
                      free_child(node, path, "left")
                      \o free_child(node, path, "right")
               [] node.type = "AST_UNARY_EXPR" ->
                      free_child(node, path, "operand")
               [] node.type = "AST_LITERAL_EXPR" ->
                      Read(path, "node")
                      \o (IF node.lit = "LIT_STRING"
                          THEN free_string(node.string_value, path, "node",
                                           "string_value")
                          ELSE <<>>)
               [] node.type = "AST_IDENTIFIER_EXPR" ->
                      free_string(node.identifier, path, "node", "identifier")
               [] node.type = "AST_CALL_EXPR" ->
                      free_child(node, path, "callee")
                      \o free_list(node.arguments, path, "arguments", "node")
               [] node.type = "AST_INDEX_EXPR" ->
                      free_child(node, path, "object")
                      \o free_child(node, path, "index")
               [] node.type = "AST_MEMBER_EXPR" ->
                      free_child(node, path, "object")
                      \o free_string(node.member, path, "node", "member")
               [] node.type = "AST_ARRAY_EXPR" ->
                      free_list(node.elements, path, "elements", "node")
               [] node.type = "AST_DICT_EXPR" ->
                      free_list(node.entries, path, "entries", "entry")
               [] node.type = "AST_VAR_DECL" ->
                      free_string(node.name, path, "node", "name")
                      \o free_string(node.type_name, path, "node", "type_name")
                      \o free_child(node, path, "initializer")
               [] node.type = "AST_ASSIGN_STMT" ->
                      free_child(node, path, "target")
                      \o free_child(node, path, "value")
               [] node.type = "AST_EXPR_STMT" ->
                      free_child(node, path, "expr_stmt")
               [] node.type = "AST_IF_STMT" ->
                      free_child(node, path, "condition")
                      \o free_child(node, path, "then_branch")
                      \o free_child(node, path, "else_branch")
               [] node.type = "AST_WHILE_STMT" ->
                      free_child(node, path, "condition")
                      \o free_child(node, path, "body")
               [] node.type = "AST_FOR_STMT" ->
                      free_string(node.variable, path, "node", "variable")
                      \o free_string(node.index_var, path, "node", "index_var")
                      \o free_child(node, path, "iterable")
                      \o free_child(node, path, "body")
               [] node.type = "AST_LOOP_STMT" ->
                      free_child(node, path, "body")
               [] node.type = "AST_RETURN_STMT" ->
                      free_child(node, path, "value")
               [] node.type = "AST_BLOCK_STMT" ->
                      free_list(node.statements, path, "statements", "node")
               [] node.type = "AST_FUNCTION_DECL" ->
                      free_string(node.name, path, "node", "name")
                      \o free_string(node.return_type, path, "node", "return_type")
                      \o free_list(node.parameters, path, "parameters", "param")
                      \o free_child(node, path, "body")
               [] node.type = "AST_CLASS_DECL" ->
                      free_string(node.name, path, "node", "name")
                      \o free_list(node.methods, path, "methods", "node")
                      \o free_list(node.fields, path, "fields", "node")
               [] node.type = "AST_IMPORT_STMT" ->
                      free_string(node.module_name, path, "node", "module_name")
               [] node.type = "AST_PROGRAM" ->
                      free_list(node.declarations, path, "declarations", "node")
               [] node.type \in {"AST_BREAK_STMT", "AST_CONTINUE_STMT"} ->
                      <<>>)
         \o Free(path, "node")

(* ===================== memory of a tree ================================ *)

\* what the constructors of ast.c store in a node: the strings they
\* duplicate (model field, C field), the nodes and the lists they are given
OwnedStrings(node) ==
    CASE node.type = "AST_LITERAL_EXPR" /\ node.lit = "LIT_STRING" ->
             {<<"string_value", "string_value">>}
      [] node.type = "AST_IDENTIFIER_EXPR" -> {<<"identifier", "identifier">>}
      [] node.type = "AST_MEMBER_EXPR" -> {<<"member", "member">>}
      [] node.type = "AST_VAR_DECL" ->
             {<<"name", "name">>, <<"type_name", "type_name">>}
      [] node.type = "AST_FOR_STMT" ->
             {<<"variable", "variable">>, <<"index_var", "index_var">>}
      [] node.type = "AST_FUNCTION_DECL" ->
             {<<"name", "name">>, <<"return_type", "return_type">>}
      [] node.type = "AST_CLASS_DECL" -> {<<"name", "name">>}
      [] node.type = "AST_IMPORT_STMT" -> {<<"module_name", "module_name">>}
      [] OTHER -> {}

ChildNodes(node) ==
    CASE node.type = "AST_BINARY_EXPR" -> {"left", "right"}
      [] node.type = "AST_UNARY_EXPR" -> {"operand"}
      [] node.type = "AST_CALL_EXPR" -> {"callee"}
      [] node.type = "AST_INDEX_EXPR" -> {"object", "index"}
      [] node.type = "AST_MEMBER_EXPR" -> {"object"}
      [] node.type = "AST_VAR_DECL" -> {"initializer"}
      [] node.type = "AST_ASSIGN_STMT" -> {"target", "value"}
      [] node.type = "AST_EXPR_STMT" -> {"expr_stmt"}
      [] node.type = "AST_IF_STMT" ->
             {"condition", "then_branch", "else_branch"}
      [] node.type = "AST_WHILE_STMT" -> {"condition", "body"}
      [] node.type = "AST_FOR_STMT" -> {"iterable", "body"}
      [] node.type = "AST_LOOP_STMT" -> {"body"}
      [] node.type = "AST_RETURN_STMT" -> {"value"}
      [] node.type = "AST_FUNCTION_DECL" -> {"body"}
      [] OTHER -> {}

ChildLists(node) ==
    CASE node.type = "AST_CALL_EXPR" -> {<<"arguments", "node">>}
      [] node.type = "AST_ARRAY_EXPR" -> {<<"elements", "node">>}
      [] node.type = "AST_DICT_EXPR" -> {<<"entries", "entry">>}
      [] node.type = "AST_BLOCK_STMT" -> {<<"statements", "node">>}
      [] node.type = "AST_FUNCTION_DECL" -> {<<"parameters", "param">>}
      [] node.type = "AST_CLASS_DECL" ->
             {<<"methods", "node">>, <<"fields", "node">>}
      [] node.type = "AST_PROGRAM" -> {<<"declarations", "node">>}
      [] OTHER -> {}

RECURSIVE Allocations(_, _)
RECURSIVE ItemAllocations(_, _, _)

\* the blocks malloc, calloc and realloc have returned for the list at path
ListAllocations(list, path, kind) ==
    IF list = NULL_LIST THEN {}
    ELSE {Block(path, "list")}
         \cup (IF list = <<>> THEN {} ELSE {Block(path, "items")})
         \cup UNION {ItemAllocations(list[i], Append(path, Step("item", i)),
                                     kind) : i \in 1..Len(list)}

ItemAllocations(item, path, kind) ==
    CASE kind = "param" ->
             {Block(path, "param"), Block(path, "name")}
             \cup (IF item.type_name = NULL_STR THEN {}
                   ELSE {Block(path, "type_name")})
             \cup Allocations(item.default_value,
                              Append(path, Step("default_value", 0)))
      [] kind = "entry" ->
             {Block(path, "entry")}
             \cup Allocations(item.key, Append(path, Step("key", 0)))
             \cup Allocations(item.value, Append(path, Step("value", 0)))
      [] OTHER -> Allocations(item, path)

\* the blocks reachable from node, which is at path
Allocations(node, path) ==
    IF node = NULL THEN {}
    ELSE {Block(path, "node")}
         \cup {Block(path, s[2]) : s \in {t \in OwnedStrings(node) :
                                             node[t[1]] # NULL_STR}}
         \cup UNION {Allocations(node[f], Append(path, Step(f, 0))) :
                        f \in ChildNodes(node)}
         \cup UNION {ListAllocations(node[l[1]], Append(path, Step(l[1], 0)),
                                     l[2]) : l \in ChildLists(node)}

\* the memory after the events, from the live blocks heap: [heap, faults];
\* a fault is a free of a block that is not live or a read of one
Replay(events, heap, faults) ==
    [heap |-> heap \ {events[i].block :
                         i \in {j \in 1..Len(events) : events[j].op = "free"}},
     faults |-> faults \cup
         {events[i] :
             i \in {j \in 1..Len(events) :
                       \/ events[j].block \notin heap
                       \/ \E k \in 1..(j - 1) :
                              /\ events[k].op = "free"
                              /\ events[k].block = events[j].block}}]

(* ===================== parser helpers (parser.c) ======================= *)

\* The Parser is the record
\*   [lexer, scan, current, previous, had_error, panic_mode, errors]
\* where lexer is the Lexer it points to, errors is what was written to
\* stderr and scan is Scan(lexer), the results that the calls of
\* lexer_next_token return from here on.  A function that returns a node and
\* changes the Parser is an operator that returns [p, node]: the Parser after
\* the call and the node.
\*
\* The loop of parse_block_statement does not end when an iteration leaves
\* the Parser as it found it.  Control then never comes back to the caller:
\* the model marks this by giving the current token the type "HUNG", which
\* no test of the parser matches and on which no helper acts.

R(node, p) == [p |-> p, node |-> node]

Hung(p) == p.current.type = "HUNG"

Hang(p) == [p EXCEPT !.current.type = "HUNG"]

\* string_dup_n(token.start, token.length)
string_dup_n(token) == token.lexeme

\* one diagnostic written by parser_error_at
Diagnostic(token, message) ==
    [line |-> token.line, column |-> token.column,
     at |-> IF token.type = "TOKEN_EOF" THEN "end"
            ELSE IF token.type = "TOKEN_ERROR" THEN "none" ELSE "lexeme",
     text |-> IF token.type \in {"TOKEN_EOF", "TOKEN_ERROR"}
              THEN <<>> ELSE token.lexeme,
     message |-> message]

\* parser_error_at without its first line, if (parser->panic_mode) return
parser_error_at_unguarded(p, token, message) ==
    IF Hung(p) THEN p
    ELSE [p EXCEPT !.panic_mode = TRUE,
                   !.had_error = TRUE,
                   !.errors = IF Len(@) < MaxErrors
                              THEN Append(@, Diagnostic(token, message))
                              ELSE @]

\* parser_error_at entering panic mode without the sticky flag
parser_error_at_panic_only(p, token, message) ==
    IF p.panic_mode \/ Hung(p) THEN p
    ELSE [p EXCEPT !.panic_mode = TRUE,
                   !.errors = IF Len(@) < MaxErrors
                              THEN Append(@, Diagnostic(token, message))
                              ELSE @]

parser_error_at(p, token, message) ==
    IF p.panic_mode \/ Hung(p) THEN p
    ELSE [p EXCEPT !.panic_mode = TRUE,
                   !.had_error = TRUE,
                   !.errors = IF Len(@) < MaxErrors
                              THEN Append(@, Diagnostic(token, message))
                              ELSE @]

parser_error_at_current(p, message) == parser_error_at(p, p.current, message)

parser_error(p, message) == parser_error_at(p, p.previous, message)

\* parser->current = lexer_next_token(parser->lexer); Head(p.scan) is
\* lexer_next_token(p.lexer)
next_token(p) ==
    [p EXCEPT !.lexer = Head(p.scan).lexer,
              !.current = Head(p.scan).tok,
              !.scan = IF Len(@) > 1 THEN Tail(@) ELSE @]

\* the loop of parser_advance leaving at the first token, whatever its type
advance_loop_first_token(parser) == next_token(parser)

RECURSIVE advance_loop(_)
\* for (;;) { current = lexer_next_token(); if (type != TOKEN_ERROR) break;
\*            parser_error_at_current(current.start); }
advance_loop(parser) ==
    Let(next_token(parser), LAMBDA p :
        IF p.current.type # "TOKEN_ERROR" THEN p
        ELSE advance_loop(parser_error_at_current(p, p.current.lexeme[1])))

parser_advance(p) ==
    IF Hung(p) THEN p ELSE advance_loop([p EXCEPT !.previous = p.current])

parser_check(p, type) == p.current.type = type

\* parser_match returns [ok, p]
parser_match(p, type) ==
    IF ~parser_check(p, type) THEN [ok |-> FALSE, p |-> p]
    ELSE [ok |-> TRUE, p |-> parser_advance(p)]

\* parser_expect returns [tok, p]
parser_expect(p, type, message) ==
    IF p.current.type = type
    THEN [tok |-> p.current, p |-> parser_advance(p)]
    ELSE [tok |-> p.current, p |-> parser_error_at_current(p, message)]

parser_is_at_end(p) == p.current.type = "TOKEN_EOF"

\* the switch of parser_synchronize without case TOKEN_IF
SyncTokensWithoutIf ==
    {"TOKEN_FUNC", "TOKEN_WHILE", "TOKEN_FOR", "TOKEN_LOOP", "TOKEN_RETURN",
     "TOKEN_IMPORT", "TOKEN_CLASS"}

SyncTokens ==
    {"TOKEN_FUNC", "TOKEN_IF", "TOKEN_WHILE", "TOKEN_FOR", "TOKEN_LOOP",
     "TOKEN_RETURN", "TOKEN_IMPORT", "TOKEN_CLASS"}

RECURSIVE synchronize_loop_late(_)
\* the loop of parser_synchronize with the switch on the previous token
synchronize_loop_late(parser) ==
    Let(parser, LAMBDA p :
        CASE p.current.type = "TOKEN_EOF" -> p
          [] p.previous.type = "TOKEN_NEWLINE" -> p
          [] p.previous.type \in SyncTokens -> p
          [] OTHER -> synchronize_loop_late(parser_advance(p)))

RECURSIVE synchronize_loop(_)
\* the while loop of parser_synchronize
synchronize_loop(parser) ==
    Let(parser, LAMBDA p :
        CASE p.current.type = "TOKEN_EOF" -> p
          [] p.previous.type = "TOKEN_NEWLINE" -> p
          [] p.current.type \in SyncTokens -> p
          [] OTHER -> synchronize_loop(parser_advance(p)))

\* parser_synchronize clearing both flags
parser_synchronize_clears_had_error(p) ==
    synchronize_loop([p EXCEPT !.panic_mode = FALSE, !.had_error = FALSE])

parser_synchronize(p) == synchronize_loop([p EXCEPT !.panic_mode = FALSE])

\* parser_init sets lexer, had_error and panic_mode and calls parser_advance;
\* current holds no defined value before that call: garbage is the token
\* type found in it, which parser_advance copies to previous
parser_init(lexer, garbage) ==
    parser_advance(
        [lexer |-> lexer,
         scan |-> Scan(lexer),
         current |-> make_token(garbage, <<>>, 0, 0),
         previous |-> make_token(garbage, <<>>, 0, 0),
         had_error |-> FALSE, panic_mode |-> FALSE,
         errors |-> <<>>])

(* ===================== expressions (parser.c) ========================== *)

RECURSIVE strtol(_)
strtol(digits) ==
    IF digits = <<>> THEN 0
    ELSE 10 * strtol(SubSeq(digits, 1, Len(digits) - 1))
         + DigitVal(digits[Len(digits)])

\* the value of a float literal: integer part and digits of the fraction
strtod(text) ==
    LET dot == CHOOSE i \in 1..Len(text) : text[i] = "."
    IN [int |-> strtol(SubSeq(text, 1, dot - 1)),
        frac |-> SubSeq(text, dot + 1, Len(text))]

RECURSIVE parser_parse_primary(_)
RECURSIVE parse_postfix(_)
RECURSIVE postfix_loop(_)
RECURSIVE parse_postfix_continue(_, _)
RECURSIVE postfix_continue_loop(_)
RECURSIVE parse_unary(_)
RECURSIVE parse_factor(_)
RECURSIVE factor_loop(_, _, _)
RECURSIVE parse_term(_)
RECURSIVE term_loop(_, _, _)
RECURSIVE parse_comparison(_)
RECURSIVE comparison_loop(_, _, _)
RECURSIVE parse_equality(_)
RECURSIVE equality_loop(_, _, _)
RECURSIVE parse_logical_and(_)
RECURSIVE logical_and_loop(_, _, _)
RECURSIVE parse_logical_or(_)
RECURSIVE logical_or_loop(_, _, _)
RECURSIVE parser_parse_expression(_)
RECURSIVE expression_list(_, _)

\* do { append(list, parse_expression()) } while (match(TOKEN_COMMA));
\* returns [p, list]
expression_list(list, parser) ==
    Let(parser_parse_expression(parser), LAMBDA expr :
        IF parser_check(expr.p, "TOKEN_COMMA")
        THEN expression_list(ast_list_append(list, expr.node),
                             parser_advance(expr.p))
        ELSE [p |-> expr.p, list |-> ast_list_append(list, expr.node)])

\* if (!check(closing)) do { ... } while (match(TOKEN_COMMA));
optional_expression_list(p, closing) ==
    IF ~parser_check(p, closing)
    THEN expression_list(ast_list_create, p)
    ELSE [p |-> p, list |-> ast_list_create]

\* a literal, identifier: the token just consumed is the previous token
primary_int(parser) ==
    Let(parser, LAMBDA p :
        R(ast_create_literal_int(strtol(string_dup_n(p.previous)),
                                 p.previous.line, p.previous.column), p))

primary_float(parser) ==
    Let(parser, LAMBDA p :
        R(ast_create_literal_float(strtod(string_dup_n(p.previous)),
                                   p.previous.line, p.previous.column), p))

\* the lexeme without its first and last character (the quotes)
primary_string(parser) ==
    Let(parser, LAMBDA p :
        R(ast_create_literal_string(
              SubSeq(p.previous.lexeme, 2, Len(p.previous.lexeme) - 1),
              p.previous.line, p.previous.column), p))

primary_bool(parser, value) ==
    Let(parser, LAMBDA p :
        R(ast_create_literal_bool(value, p.previous.line, p.previous.column),
          p))

primary_identifier(parser) ==
    Let(parser, LAMBDA p :
        R(ast_create_identifier(string_dup_n(p.previous), p.previous.line,
                                p.previous.column), p))

\* the grouped expression of parser_parse_primary without its parser_error
primary_grouped_silent(expression) ==
    Let(expression, LAMBDA expr :
        IF expr.node = NULL
        THEN R(NULL, expr.p)
        ELSE R(expr.node,
               parser_expect(expr.p, "TOKEN_RIGHT_PAREN",
                             "Expected ')' after expression").p))

\* '(' has been consumed and expression is what was parsed after it
primary_grouped(expression) ==
    Let(expression, LAMBDA expr :
        IF expr.node = NULL
        THEN R(NULL, parser_error(expr.p, "Expected expression after '('"))
        ELSE R(expr.node,
               parser_expect(expr.p, "TOKEN_RIGHT_PAREN",
                             "Expected ')' after expression").p))

\* '[' has been consumed: it is the previous token
primary_array(parser) ==
    Let(parser, LAMBDA p :
    Let(optional_expression_list(p, "TOKEN_RIGHT_BRACKET"), LAMBDA elements :
        R(ast_create_array(elements.list, p.previous.line, p.previous.column),
          parser_expect(elements.p, "TOKEN_RIGHT_BRACKET",
                        "Expected ']' after array elements").p)))

parser_parse_primary(p) ==
    CASE p.current.type \in {"TOKEN_RIGHT_PAREN", "TOKEN_RIGHT_BRACKET",
                             "TOKEN_EOF"} -> R(NULL, p)
      [] p.current.type = "TOKEN_INT" -> primary_int(parser_advance(p))
      [] p.current.type = "TOKEN_FLOAT" -> primary_float(parser_advance(p))
      [] p.current.type = "TOKEN_STRING" -> primary_string(parser_advance(p))
      [] p.current.type = "TOKEN_TRUE" -> primary_bool(parser_advance(p), TRUE)
      [] p.current.type = "TOKEN_FALSE" ->
             primary_bool(parser_advance(p), FALSE)
      [] p.current.type = "TOKEN_IDENTIFIER" ->
             primary_identifier(parser_advance(p))
      [] p.current.type = "TOKEN_LEFT_PAREN" ->
             primary_grouped(parser_parse_expression(parser_advance(p)))
      [] p.current.type = "TOKEN_LEFT_BRACKET" ->
             primary_array(parser_advance(p))
      [] OTHER -> R(NULL, parser_error_at_current(p, "Expected expression"))

\* the branches of the for (;;) of parse_postfix; the token that selects
\* the branch has been consumed
postfix_call(callee, parser) ==
    Let(parser, LAMBDA p :
    Let(optional_expression_list(p, "TOKEN_RIGHT_PAREN"), LAMBDA args :
    Let(parser_expect(args.p, "TOKEN_RIGHT_PAREN",
                      "Expected ')' after arguments"), LAMBDA paren :
        R(ast_create_call(callee, args.list, paren.tok.line, paren.tok.column),
          paren.p))))

postfix_index(object, parser) ==
    Let(parser_parse_expression(parser), LAMBDA index :
    Let(parser_expect(index.p, "TOKEN_RIGHT_BRACKET",
                      "Expected ']' after index"), LAMBDA bracket :
        R(ast_create_index(object, index.node, bracket.tok.line,
                           bracket.tok.column), bracket.p)))

\* the member branch of parse_postfix building its node on no object
postfix_member_detached(object, parser) ==
    Let(parser, LAMBDA p :
    Let(parser_expect(p, "TOKEN_IDENTIFIER",
                      "Expected property name after '.'"), LAMBDA member :
        R(ast_create_member(NULL, string_dup_n(member.tok), member.tok.line,
                            member.tok.column), member.p)))

postfix_member(object, parser) ==
    Let(parser, LAMBDA p :
    Let(parser_expect(p, "TOKEN_IDENTIFIER",
                      "Expected property name after '.'"), LAMBDA member :
        R(ast_create_member(object, string_dup_n(member.tok), member.tok.line,
                            member.tok.column), member.p)))

\* the for (;;) of parse_postfix on expression = [p, node]
postfix_loop(expression) ==
    Let(expression, LAMBDA expr :
        CASE expr.p.current.type = "TOKEN_LEFT_PAREN" ->
                 postfix_loop(postfix_call(expr.node, parser_advance(expr.p)))
          [] expr.p.current.type = "TOKEN_LEFT_BRACKET" ->
                 postfix_loop(postfix_index(expr.node, parser_advance(expr.p)))
          [] expr.p.current.type = "TOKEN_DOT" ->
                 postfix_loop(postfix_member(expr.node, parser_advance(expr.p)))
          [] OTHER -> expr)

parse_postfix(p) == postfix_loop(parser_parse_primary(p))

\* parse_postfix_continue repeats the loop of parse_postfix in parser.c
continue_call(callee, parser) ==
    Let(parser, LAMBDA p :
    Let(optional_expression_list(p, "TOKEN_RIGHT_PAREN"), LAMBDA args :
    Let(parser_expect(args.p, "TOKEN_RIGHT_PAREN",
                      "Expected ')' after arguments"), LAMBDA paren :
        R(ast_create_call(callee, args.list, paren.tok.line, paren.tok.column),
          paren.p))))

\* the index branch of parse_postfix_continue without its parser_expect
continue_index_unchecked(object, parser) ==
    Let(parser_parse_expression(parser), LAMBDA index :
        R(ast_create_index(object, index.node, index.p.current.line,
                           index.p.current.column), index.p))

continue_index(object, parser) ==
    Let(parser_parse_expression(parser), LAMBDA index :
    Let(parser_expect(index.p, "TOKEN_RIGHT_BRACKET",
                      "Expected ']' after index"), LAMBDA bracket :
        R(ast_create_index(object, index.node, bracket.tok.line,
                           bracket.tok.column), bracket.p)))

continue_member(object, parser) ==
    Let(parser, LAMBDA p :
    Let(parser_expect(p, "TOKEN_IDENTIFIER",
                      "Expected property name after '.'"), LAMBDA member :
        R(ast_create_member(object, string_dup_n(member.tok), member.tok.line,
                            member.tok.column), member.p)))

postfix_continue_loop(expression) ==
    Let(expression, LAMBDA expr :
        CASE expr.p.current.type = "TOKEN_LEFT_PAREN" ->
                 postfix_continue_loop(continue_call(expr.node,
                                                     parser_advance(expr.p)))
          [] expr.p.current.type = "TOKEN_LEFT_BRACKET" ->
                 postfix_continue_loop(continue_index(expr.node,
                                                      parser_advance(expr.p)))
          [] expr.p.current.type = "TOKEN_DOT" ->
                 postfix_continue_loop(continue_member(expr.node,
                                                       parser_advance(expr.p)))
          [] OTHER -> expr)

parse_postfix_continue(p, expr) == postfix_continue_loop(R(expr, p))

\* the operator token op has been consumed and operand parsed after it
unary_node(un_op, op, operand) ==
    Let(operand, LAMBDA right :
        R(ast_create_unary(un_op, right.node, op.line, op.column), right.p))

parse_unary(parser) ==
    Let(parser, LAMBDA p :
        CASE p.current.type = "TOKEN_MINUS" ->
                 unary_node("OP_NEG", p.current, parse_unary(parser_advance(p)))
          [] p.current.type = "TOKEN_NOT" ->
                 unary_node("OP_NOT", p.current, parse_unary(parser_advance(p)))
          [] p.current.type = "TOKEN_TILDE" ->
                 unary_node("OP_BIT_NOT", p.current,
                            parse_unary(parser_advance(p)))
          [] OTHER -> parse_postfix(p))

\* Each function of the precedence chain (parse_factor up to
\* parse_logical_or) is
\*   expr = <next function down>();
\*   while (match(...)) { op = previous; right = <next function down>();
\*                        expr = ast_create_binary(bin_op, expr, right, ...); }
\* The operator <name>_loop(left, op, parser) is the function from a call
\* of <next function down> on: left is the expression built so far and op
\* the operator token consumed after it, both NULL at the first call.  The
\* node built from the operand parsed next is <name>_node(left, op, right).
factor_node(left, op, right) ==
    IF op = NULL THEN right
    ELSE ast_create_binary(
             IF op.type = "TOKEN_STAR" THEN "OP_MUL"
             ELSE IF op.type = "TOKEN_SLASH" THEN "OP_DIV" ELSE "OP_MOD",
             left, right, op.line, op.column)

factor_loop(left, op, parser) ==
    Let(parse_unary(parser), LAMBDA right :
        IF right.p.current.type \in {"TOKEN_STAR", "TOKEN_SLASH",
                                     "TOKEN_PERCENT"}
        THEN factor_loop(factor_node(left, op, right.node), right.p.current,
                         parser_advance(right.p))
        ELSE R(factor_node(left, op, right.node), right.p))

parse_factor(p) == factor_loop(NULL, NULL, p)

\* parse_term building its node with the operands exchanged
term_node_swapped(left, op, right) ==
    IF op = NULL THEN right
    ELSE ast_create_binary(
             IF op.type = "TOKEN_PLUS" THEN "OP_ADD" ELSE "OP_SUB",
             right, left, op.line, op.column)

term_node(left, op, right) ==
    IF op = NULL THEN right
    ELSE ast_create_binary(
             IF op.type = "TOKEN_PLUS" THEN "OP_ADD" ELSE "OP_SUB",
             left, right, op.line, op.column)

RECURSIVE term_loop_flat(_, _, _)
\* the loop of parse_term with right = parse_unary(parser)
term_loop_flat(left, op, parser) ==
    Let(parse_unary(parser), LAMBDA right :
        IF right.p.current.type \in {"TOKEN_PLUS", "TOKEN_MINUS"}
        THEN term_loop_flat(term_node(left, op, right.node), right.p.current,
                            parser_advance(right.p))
        ELSE R(term_node(left, op, right.node), right.p))

term_loop(left, op, parser) ==
    Let(parse_factor(parser), LAMBDA right :
        IF right.p.current.type \in {"TOKEN_PLUS", "TOKEN_MINUS"}
        THEN term_loop(term_node(left, op, right.node), right.p.current,
                       parser_advance(right.p))
        ELSE R(term_node(left, op, right.node), right.p))

parse_term(p) == term_loop(NULL, NULL, p)

comparison_node(left, op, right) ==
    IF op = NULL THEN right
    ELSE ast_create_binary(
             CASE op.type = "TOKEN_LESS" -> "OP_LT"
               [] op.type = "TOKEN_GREATER" -> "OP_GT"
               [] op.type = "TOKEN_LESS_EQUAL" -> "OP_LE"
               [] op.type = "TOKEN_GREATER_EQUAL" -> "OP_GE"
               [] OTHER -> "OP_LT",
             left, right, op.line, op.column)

comparison_loop(left, op, parser) ==
    Let(parse_term(parser), LAMBDA right :
        IF right.p.current.type \in {"TOKEN_LESS", "TOKEN_GREATER",
                                     "TOKEN_LESS_EQUAL", "TOKEN_GREATER_EQUAL"}
        THEN comparison_loop(comparison_node(left, op, right.node),
                             right.p.current, parser_advance(right.p))
        ELSE R(comparison_node(left, op, right.node), right.p))

parse_comparison(p) == comparison_loop(NULL, NULL, p)

equality_node(left, op, right) ==
    IF op = NULL THEN right
    ELSE ast_create_binary(
             IF op.type = "TOKEN_EQUAL_EQUAL" THEN "OP_EQ" ELSE "OP_NE",
             left, right, op.line, op.column)

equality_loop(left, op, parser) ==
    Let(parse_comparison(parser), LAMBDA right :
        IF right.p.current.type \in {"TOKEN_EQUAL_EQUAL", "TOKEN_NOT_EQUAL"}
        THEN equality_loop(equality_node(left, op, right.node),
                           right.p.current, parser_advance(right.p))
        ELSE R(equality_node(left, op, right.node), right.p))

parse_equality(p) == equality_loop(NULL, NULL, p)

logical_and_node(left, op, right) ==
    IF op = NULL THEN right
    ELSE ast_create_binary("OP_AND", left, right, op.line, op.column)

logical_and_loop(left, op, parser) ==
    Let(parse_equality(parser), LAMBDA right :
        IF right.p.current.type = "TOKEN_AND"
        THEN logical_and_loop(logical_and_node(left, op, right.node),
                              right.p.current, parser_advance(right.p))
        ELSE R(logical_and_node(left, op, right.node), right.p))

parse_logical_and(p) == logical_and_loop(NULL, NULL, p)

logical_or_node(left, op, right) ==
    IF op = NULL THEN right
    ELSE ast_create_binary("OP_OR", left, right, op.line, op.column)

logical_or_loop(left, op, parser) ==
    Let(parse_logical_and(parser), LAMBDA right :
        IF right.p.current.type = "TOKEN_OR"
        THEN logical_or_loop(logical_or_node(left, op, right.node),
                             right.p.current, parser_advance(right.p))
        ELSE R(logical_or_node(left, op, right.node), right.p))

parse_logical_or(p) == logical_or_loop(NULL, NULL, p)

parser_parse_expression(p) == parse_logical_or(p)

(* ===================== statements (parser.c) =========================== *)

RECURSIVE parse_block_statement(_)
RECURSIVE block_loop(_, _)
RECURSIVE parse_body(_)
RECURSIVE parse_if_statement(_)
RECURSIVE parse_while_statement(_)
RECURSIVE parse_for_statement(_)
RECURSIVE parse_loop_statement(_)
RECURSIVE parse_return_statement(_)
RECURSIVE parse_function_declaration(_)
RECURSIVE parser_parse_statement(_)

\* while (!check(TOKEN_RIGHT_BRACE) && !is_at_end()) { stmt = ...; append }
\* returns [p, list].  parser_parse_statement is a function of the Parser
\* alone, so an iteration that leaves the Parser as it found it is repeated
\* for ever: control never leaves the loop.
block_loop(statements, p) ==
    IF parser_check(p, "TOKEN_RIGHT_BRACE") \/ parser_is_at_end(p) \/ Hung(p)
    THEN [p |-> p, list |-> statements]
    ELSE Let(parser_parse_statement(p), LAMBDA stmt :
             IF stmt.p = p
             THEN [p |-> Hang(p), list |-> statements]
             ELSE block_loop(IF stmt.node # NULL
                             THEN ast_list_append(statements, stmt.node)
                             ELSE statements,
                             stmt.p))

\* parse_block_statement without its parser_expect of '}'
parse_block_statement_unclosed(parser) ==
    Let(parser_expect(parser, "TOKEN_LEFT_BRACE",
                      "Expected '{' to begin block"), LAMBDA brace :
    Let(block_loop(ast_list_create, brace.p), LAMBDA body :
        R(ast_create_block(body.list, brace.tok.line, brace.tok.column),
          body.p)))

parse_block_statement(parser) ==
    Let(parser_expect(parser, "TOKEN_LEFT_BRACE",
                      "Expected '{' to begin block"), LAMBDA brace :
    Let(block_loop(ast_list_create, brace.p), LAMBDA body :
        R(ast_create_block(body.list, brace.tok.line, brace.tok.column),
          parser_expect(body.p, "TOKEN_RIGHT_BRACE",
                        "Expected '}' after block").p)))

\* if (check(TOKEN_LEFT_BRACE)) block else single statement
parse_body(p) ==
    IF parser_check(p, "TOKEN_LEFT_BRACE")
    THEN parse_block_statement(p)
    ELSE parser_parse_statement(p)

\* the optional else branch of parse_if_statement
parse_else(p) ==
    IF ~parser_check(p, "TOKEN_ELSE") THEN R(NULL, p)
    ELSE Let(parser_advance(p), LAMBDA q :
             IF parser_check(q, "TOKEN_IF")
             THEN parse_if_statement(parser_advance(q))
             ELSE parse_body(q))

parse_if_statement(parser) ==
    Let(parser, LAMBDA p :
    Let(parser_parse_expression(p), LAMBDA condition :
        IF condition.node = NULL
        THEN R(NULL, parser_error(condition.p,
                                  "Expected condition in if statement"))
        ELSE Let(parse_body(condition.p), LAMBDA then_branch :
             Let(parse_else(then_branch.p), LAMBDA else_branch :
                 R(ast_create_if(condition.node, then_branch.node,
                                 else_branch.node, p.previous.line,
                                 p.previous.column), else_branch.p)))))

parse_while_statement(parser) ==
    Let(parser, LAMBDA p :
    Let(parser_parse_expression(p), LAMBDA condition :
        IF condition.node = NULL
        THEN R(NULL, parser_error(condition.p,
                                  "Expected condition in while statement"))
        ELSE Let(parse_body(condition.p), LAMBDA body :
                 R(ast_create_while(condition.node, body.node, p.previous.line,
                                    p.previous.column), body.p))))

\* the part of parse_for_statement that follows the variable names
for_in(for_token, var_name, index_var, p) ==
    Let(parser_parse_expression(
            parser_expect(p, "TOKEN_IN", "Expected 'in' in for loop").p),
        LAMBDA iterable :
        IF iterable.node = NULL
        THEN R(NULL, parser_error(iterable.p,
                                  "Expected iterable expression in for loop"))
        ELSE Let(parse_body(iterable.p), LAMBDA body :
                 R(ast_create_for(var_name, iterable.node, body.node,
                                  index_var, for_token.line, for_token.column),
                   body.p)))

\* parse_for_statement keeping the first name as the value variable
parse_for_statement_first_is_value(parser) ==
    Let(parser, LAMBDA p :
    Let(parser_expect(p, "TOKEN_IDENTIFIER",
                      "Expected variable name in for loop"), LAMBDA var :
        IF ~parser_check(var.p, "TOKEN_COMMA")
        THEN for_in(p.previous, string_dup_n(var.tok), NULL_STR, var.p)
        ELSE Let(parser_advance(var.p), LAMBDA q :
             Let(parser_expect(q, "TOKEN_IDENTIFIER",
                               "Expected value variable after ','"),
                 LAMBDA value_var :
                 for_in(p.previous, string_dup_n(var.tok),
                        string_dup_n(value_var.tok), value_var.p)))))

parse_for_statement(parser) ==
    Let(parser, LAMBDA p :
    Let(parser_expect(p, "TOKEN_IDENTIFIER",
                      "Expected variable name in for loop"), LAMBDA var :
        IF ~parser_check(var.p, "TOKEN_COMMA")
        THEN for_in(p.previous, string_dup_n(var.tok), NULL_STR, var.p)
        ELSE Let(parser_advance(var.p), LAMBDA q :
             Let(parser_expect(q, "TOKEN_IDENTIFIER",
                               "Expected value variable after ','"),
                 LAMBDA value_var :
                 for_in(p.previous, string_dup_n(value_var.tok),
                        string_dup_n(var.tok), value_var.p)))))

parse_loop_statement(parser) ==
    Let(parser, LAMBDA p :
    Let(parse_body(p), LAMBDA body :
        R(ast_create_loop(body.node, p.previous.line, p.previous.column),
          body.p)))

parse_return_statement(parser) ==
    Let(parser, LAMBDA p :
    Let(IF /\ ~parser_check(p, "TOKEN_RIGHT_BRACE")
           /\ ~parser_check(p, "TOKEN_EOF")
           /\ ~parser_is_at_end(p)
        THEN parser_parse_expression(p)
        ELSE R(NULL, p), LAMBDA value :
        R(ast_create_return(value.node, p.previous.line, p.previous.column),
          value.p)))

RECURSIVE parameter_list(_, _)
\* the optional type annotation of a parameter: returns [p, name]
parameter_type(p) ==
    IF ~parser_check(p, "TOKEN_COLON") THEN [p |-> p, name |-> NULL_STR]
    ELSE Let(parser_advance(p), LAMBDA q :
         Let(parser_expect(q, "TOKEN_IDENTIFIER", "Expected parameter type"),
             LAMBDA type_token :
             [p |-> type_token.p, name |-> string_dup_n(type_token.tok)]))

\* do { parameter } while (match(TOKEN_COMMA)); returns [p, list]
parameter_list(p, params) ==
    Let(parser_expect(p, "TOKEN_IDENTIFIER", "Expected parameter name"),
        LAMBDA param :
    Let(parameter_type(param.p), LAMBDA param_type :
    Let(ast_list_append(params,
            ast_create_parameter(string_dup_n(param.tok), param_type.name,
                                 NULL)), LAMBDA list :
        IF parser_check(param_type.p, "TOKEN_COMMA")
        THEN Let(parser_advance(param_type.p),
                 LAMBDA q : parameter_list(q, list))
        ELSE [p |-> param_type.p, list |-> list])))

\* the optional return type of a function: returns [p, name]
return_type(p) ==
    IF ~parser_check(p, "TOKEN_ARROW") THEN [p |-> p, name |-> NULL_STR]
    ELSE Let(parser_advance(p), LAMBDA q :
         Let(parser_expect(q, "TOKEN_IDENTIFIER", "Expected return type"),
             LAMBDA type_token :
             [p |-> type_token.p, name |-> string_dup_n(type_token.tok)]))

parse_function_declaration(parser) ==
    Let(parser, LAMBDA p :
    Let(parser_expect(p, "TOKEN_IDENTIFIER", "Expected function name"),
        LAMBDA name_token :
    Let(parser_expect(name_token.p, "TOKEN_LEFT_PAREN",
                      "Expected '(' after function name"), LAMBDA lparen :
    Let(IF ~parser_check(lparen.p, "TOKEN_RIGHT_PAREN")
        THEN parameter_list(lparen.p, ast_list_create)
        ELSE [p |-> lparen.p, list |-> ast_list_create], LAMBDA params :
    Let(parser_expect(params.p, "TOKEN_RIGHT_PAREN",
                      "Expected ')' after parameters"), LAMBDA rparen :
    Let(return_type(rparen.p), LAMBDA type :
    Let(parse_block_statement(type.p), LAMBDA body :
        R(ast_create_function(string_dup_n(name_token.tok), params.list,
                              body.node, type.name, p.previous.line,
                              p.previous.column), body.p))))))))

\* x: type = value ; name_token and ':' have been consumed
typed_declaration(name_token, parser) ==
    Let(parser, LAMBDA p :
    Let(parser_expect(p, "TOKEN_IDENTIFIER", "Expected type name"),
        LAMBDA type_token :
    Let(parser_expect(type_token.p, "TOKEN_EQUAL", "Expected '=' after type"),
        LAMBDA equal :
    Let(parser_parse_expression(equal.p), LAMBDA init :
        R(ast_create_var_decl(string_dup_n(name_token),
                              string_dup_n(type_token.tok), init.node,
                              name_token.line, name_token.column), init.p)))))

\* x = value ; name_token and '=' have been consumed
simple_declaration(name_token, expression) ==
    Let(expression, LAMBDA value :
        R(ast_create_var_decl(string_dup_n(name_token), NULL_STR, value.node,
                              name_token.line, name_token.column), value.p))

\* return ast_create_expr_stmt(expr, expr->line, expr->column)
expression_statement(expression) ==
    Let(expression, LAMBDA expr :
        R(ast_create_expr_stmt(expr.node, expr.node.line, expr.node.column),
          expr.p))

\* the dispatch on the token after the identifier without its test of '='
identifier_statement_no_equal(name_token, parser) ==
    Let(parser, LAMBDA p :
        CASE p.current.type = "TOKEN_COLON" ->
                 typed_declaration(name_token, parser_advance(p))
          [] OTHER ->
                 expression_statement(parse_postfix_continue(p,
                     ast_create_identifier(string_dup_n(name_token),
                                           name_token.line, name_token.column))))

\* the statement begins with an identifier, which has been consumed
identifier_statement(name_token, parser) ==
    Let(parser, LAMBDA p :
        CASE p.current.type = "TOKEN_COLON" ->
                 typed_declaration(name_token, parser_advance(p))
          [] p.current.type = "TOKEN_EQUAL" ->
                 simple_declaration(name_token,
                     parser_parse_expression(parser_advance(p)))
          [] OTHER ->
                 expression_statement(parse_postfix_continue(p,
                     ast_create_identifier(string_dup_n(name_token),
                                           name_token.line, name_token.column))))

\* break, continue: the keyword has been consumed
break_statement(parser) ==
    Let(parser, LAMBDA p :
        R(ast_create_break(p.previous.line, p.previous.column), p))

continue_statement(parser) ==
    Let(parser, LAMBDA p :
        R(ast_create_continue(p.previous.line, p.previous.column), p))

\* the default of parser_parse_statement
default_statement(expression) ==
    Let(expression, LAMBDA expr :
        IF expr.node = NULL THEN R(NULL, expr.p) ELSE expression_statement(expr))

parser_parse_statement(p) ==
    CASE p.current.type = "TOKEN_IDENTIFIER" ->
             identifier_statement(p.current, parser_advance(p))
      [] p.current.type = "TOKEN_IF" -> parse_if_statement(parser_advance(p))
      [] p.current.type = "TOKEN_WHILE" ->
             parse_while_statement(parser_advance(p))
      [] p.current.type = "TOKEN_FOR" -> parse_for_statement(parser_advance(p))
      [] p.current.type = "TOKEN_LOOP" ->
             parse_loop_statement(parser_advance(p))
      [] p.current.type = "TOKEN_RETURN" ->
             parse_return_statement(parser_advance(p))
      [] p.current.type = "TOKEN_BREAK" -> break_statement(parser_advance(p))
      [] p.current.type = "TOKEN_CONTINUE" ->
             continue_statement(parser_advance(p))
      [] OTHER -> default_statement(parser_parse_expression(p))

parser_parse_declaration(p) ==
    IF parser_check(p, "TOKEN_FUNC")
    THEN parse_function_declaration(parser_advance(p))
    ELSE parser_parse_statement(p)

(* ===================== source texts ==================================== *)

\* lexical fragments of the enumerated source texts
Fragments ==
    {<<"x">>, <<"2">>, <<"+">>, <<"(">>, <<")">>, <<"=">>, <<"{">>, <<"}">>,
     <<"\n">>, <<"@">>, <<"i", "f", " ">>,
     <<"i", "m", "p", "o", "r", "t", " ">>}

RECURSIVE Concat(_)
Concat(seqs) ==
    IF seqs = <<>> THEN <<>> ELSE Head(seqs) \o Concat(Tail(seqs))

\* every concatenation of at most MaxLen fragments
ShortSources ==
    {Concat(fs) : fs \in UNION {[1..n -> Fragments] : n \in 0..MaxLen}}

\* the inline test source of test_parser.c
TestSource ==
    <<"x", " ", "=", " ", "4", "2", "\n", "y", " ", "=", " ", "(", "2",
      " ", "+", " ", "3", ")", " ", "*", " ", "4", "\n", "p", "r", "i",
      "n", "t", "(", "\"", "H", "e", "l", "l", "o", "\"", ")", "\n", "r",
      "e", "s", "u", "l", "t", " ", "=", " ", "a", "d", "d", "(", "1", "0",
      ",", " ", "2", "0", ")", "\n">>

BinaryOperators ==
    {<<"+">>, <<"-">>, <<"*">>, <<"/">>, <<"%">>, <<"=", "=">>, <<"!", "=">>,
     <<"<">>, <<">">>, <<"<", "=">>, <<">", "=">>, <<"&", "&">>, <<"|", "|">>}

\* 2 op1 3 op2 4 for every pair of binary operators
TwoOperatorSources ==
    {<<"2">> \o o1 \o <<"3">> \o o2 \o <<"4">> :
        o1 \in BinaryOperators, o2 \in BinaryOperators}

\* the example of a chain of one level
AssociativitySource == <<"8", " ", "-", " ", "3", " ", "-", " ", "2">>

\* the third line of the inline test source
PrintSource ==
    <<"p", "r", "i", "n", "t", "(", "\"", "H", "e", "l", "l", "o", "\"", ")">>

\* statements that begin with an identifier
IdentifierSources ==
    {PrintSource,
     <<"x", ":", " ", "i", "n", "t", " ", "=", " ", "4", "2">>,
     <<"x", ".", "y", "(", "1", ")", "[", "2", "]", "\n", "z", " ", "=",
       " ", "1">>,
     <<"x", " ", "y">>}

\* the text of one postfix operation
PostfixText(kind) ==
    CASE kind = "AST_CALL_EXPR" -> <<"(", "x", ")">>
      [] kind = "AST_INDEX_EXPR" -> <<"[", "0", "]">>
      [] kind = "AST_MEMBER_EXPR" -> <<".", "b">>

PostfixKinds == {"AST_CALL_EXPR", "AST_INDEX_EXPR", "AST_MEMBER_EXPR"}

\* the chains of at most MaxChain postfix operations
Chains == UNION {[1..n -> PostfixKinds] : n \in 0..MaxChain}

\* y = a followed by the operations of chain
ChainSource(chain) ==
    <<"y", " ", "=", " ", "a">>
    \o Concat([i \in 1..Len(chain) |-> PostfixText(chain[i])])

ChainSources == {ChainSource(chain) : chain \in Chains}

\* the example chain, as an initializer
ExampleChainSource ==
    <<"y", " ", "=", " ", "a", ".", "b", "(", "x", ")", "[", "0", "]", ".",
      "c">>

EmptyParenSource == <<"y", " ", "=", " ", "(", ")">>

EmptyArraySource == <<"y", " ", "=", " ", "[", "]">>

\* empty parentheses and brackets in other places
EmptyPrimarySources ==
    {EmptyParenSource, EmptyArraySource,
     <<"f", "(", "[", "]", ",", " ", "(", ")", ")">>,
     <<"[", "]", "@">>,
     <<"=", "(", ")", "[", "]">>,
     <<"y", " ", "=", " ", "[", "(", ")", "]">>}

\* statements in which an expression is required where the input ends or
\* a ')' or ']' stands
MissingExpressionSources ==
    {<<"x", " ", "=">>,
     <<"x", ":", " ", "i", "n", "t", " ", "=">>,
     <<"y", " ", "=", " ", "-">>,
     <<"y", " ", "=", " ", "2", " ", "+">>,
     <<"y", " ", "=", " ", "(", "2", " ", "*", ")">>,
     <<"y", " ", "=", " ", "a", "[", "]">>,
     <<"y", " ", "=", " ", "f", "(", "1", ",", ")">>,
     <<"i", "f", " ", ")", " ", "{", " ", "}">>,
     <<"w", "h", "i", "l", "e">>}

\* array literals with a comma before the ']'
TrailingCommaSources ==
    {<<"y", " ", "=", " ", "[", "1", ",", "]">>,
     <<"y", " ", "=", " ", "[", "1", ",", " ", "2", ",", " ", "]">>,
     <<"y", " ", "=", " ", "f", "(", "[", "x", ",", "]", ")">>}

\* statements that begin with '{'
BlockSources ==
    {<<"{", " ", "}">>,
     <<"{", " ", "x", " ", "=", " ", "1", " ", "}">>,
     <<"{", " ", "b", "r", "e", "a", "k", " ", "}", "\n", "y", " ", "=",
       " ", "2">>}

\* expression statements: an identifier, its postfix chain, a binary operator
IdentifierBinarySources ==
    {<<"a", " ", "+", " ", "b">>,
     <<"f", "(", "x", ")", " ", "=", "=", " ", "1">>,
     <<"a", " ", "+", " ", "b", "\n", "y", " ", "=", " ", "1">>}

\* if statements without a condition
MissingConditionSources ==
    {<<"i", "f", " ", "{", " ", "}">>,
     <<"i", "f", " ", "{", " ", "x", " ", "=", " ", "1", " ", "}", " ", "e",
       "l", "s", "e", " ", "{", " ", "}">>,
     <<"i", "f", " ", ")", " ", "{", " ", "}">>}

\* a block that the end of the input cuts short
UnclosedBlockSource ==
    <<"i", "f", " ", "x", " ", "{", " ", "y", " ", "=", " ", "1", "\n", "z",
      " ", "=", " ", "2">>

UnclosedBlockSources ==
    {UnclosedBlockSource,
     <<"l", "o", "o", "p", " ", "{">>,
     <<"f", "u", "n", "c", " ", "f", "(", ")", " ", "{", " ", "r", "e", "t",
       "u", "r", "n", " ", "1">>,
     <<"w", "h", "i", "l", "e", " ", "x", " ", "{", " ", "i", "f", " ", "y",
       " ", "{", " ", "b", "r", "e", "a", "k">>,
     <<"@", " ", "l", "o", "o", "p", " ", "{", " ", "x", " ", "=", " ", "1">>}

\* for loops with one name and with two
ForValueSource ==
    <<"f", "o", "r", " ", "i", " ", "i", "n", " ", "x", "s", " ", "{", " ",
      "}">>

ForIndexValueSource ==
    <<"f", "o", "r", " ", "i", ",", " ", "v", " ", "i", "n", " ", "x", "s",
      " ", "{", " ", "}">>

\* return followed by a token that begins no expression
BareReturnSources ==
    {<<"r", "e", "t", "u", "r", "n">>,
     <<"f", "u", "n", "c", " ", "f", "(", ")", " ", "{", " ", "r", "e", "t",
       "u", "r", "n", " ", "}">>,
     <<"l", "o", "o", "p", " ", "{", " ", "r", "e", "t", "u", "r", "n", "\n",
       "b", "r", "e", "a", "k", " ", "}">>,
     <<"r", "e", "t", "u", "r", "n", " ", ")">>,
     <<"r", "e", "t", "u", "r", "n", "\n", "i", "f", " ", "x", " ", "{", " ",
       "}">>}

ParenSource == <<"(", "2", "+", "3", ")", "*", "4">>

\* top-level statements whose closing parenthesis is missing
MissingParenStatements ==
    {<<"y", " ", "=", " ", "(", "2", " ", "+", " ", "3">>,
    <<"p", "r", "i", "n", "t", "(", "2">>,
    <<"(", "x">>,
    <<"y", ":", " ", "i", "n", "t", " ", "=", " ", "(", "2", " ", "*", " ",
      "3">>}

\* well-formed if statements
WellFormedIfs ==
    {<<"i", "f", " ", "x", " ", "{", " ", "}">>,
    <<"i", "f", " ", "x", " ", "{", " ", "y", " ", "=", " ", "1", " ", "}">>,
    <<"i", "f", " ", "x", " ", "y", " ", "=", " ", "1">>,
    <<"i", "f", " ", "x", " ", "{", " ", "}", " ", "e", "l", "s", "e", " ",
      "{", " ", "}">>}

\* a statement that lacks its ')' , a line break, a well-formed if statement
ErrorSurvivalSources ==
    {s \o <<"\n">> \o i : s \in MissingParenStatements, i \in WellFormedIfs}

\* malformed top-level statements that fit on one line
MalformedStatements ==
    {<<"y", " ", "=", " ", "(", "2", " ", "+", " ", "3">>,
    <<"p", "r", "i", "n", "t", "(", "2">>,
    <<"x", " ", "=", " ", "+">>,
    <<"}">>,
    <<"x", ":", " ", "=", " ", "1">>}

\* the bytes found after the terminator of the source text: what they are
\* is not defined; a read of them finds any of these
BytesBeyond == {<<>>, <<"\"">>, <<"x">>, <<"x", "\"", "+">>}

\* an unterminated string literal that ends in a backslash, as the memory
\* lexer_init is given: the text, then its terminator and the bytes beyond
UnterminatedEscapeSources ==
    {<<"\"", "\\">>, <<"y", " ", "=", " ", "\"", "a", "\\">>}
    \cup {text \o <<NUL>> \o beyond :
              text \in {<<"\"", "\\">>}, beyond \in BytesBeyond \ {<<>>}}

\* texts that end inside a comment or a string literal
UnterminatedSources ==
    {<<"/", "*">>, <<"/", "*", "*">>, <<"x", " ", "/", "*", " ", "/">>,
     <<"/", "/">>, <<"\"">>, <<"\"", "a">>, <<"\"", "\\", "\"">>,
     <<"1", ".">>, <<"/">>}

\* two malformed statements, each on its own line
TwoErrorSources ==
    {s \o <<"\n">> \o t \o <<"\n">> :
        s \in MalformedStatements, t \in MalformedStatements}

\* further programs
OtherSources ==
    {<<"f", "u", "n", "c", " ", "a", "d", "d", "(", "a", ":", " ", "i", "n",
      "t", ",", " ", "b", ")", " ", "-", ">", " ", "i", "n", "t", " ", "{",
      " ", "r", "e", "t", "u", "r", "n", " ", "a", " ", "+", " ", "b", " ",
      "}">>,
    <<"f", "o", "r", " ", "i", ",", " ", "v", " ", "i", "n", " ", "x", "s",
      " ", "{", " ", "b", "r", "e", "a", "k", " ", "}">>,
    <<"f", "o", "r", " ", "i", " ", "i", "n", " ", "x", "s", " ", "c", "o",
      "n", "t", "i", "n", "u", "e">>,
    <<"a", ".", "b", "(", "x", ")", "[", "0", "]", ".", "c">>,
    <<"w", "h", "i", "l", "e", " ", "!", "x", " ", "{", " ", "l", "o", "o",
      "p", " ", "{", " ", "}", " ", "}">>,
    <<"y", " ", "=", " ", "[", "1", ",", " ", "2", ".", "5", ",", " ", "t",
      "r", "u", "e", ",", " ", "f", "a", "l", "s", "e", "]">>,
    <<"i", "f", " ", "x", " ", "{", " ", "}", " ", "e", "l", "s", "e", " ",
      "i", "f", " ", "y", " ", "{", " ", "}", " ", "e", "l", "s", "e", " ",
      "z", " ", "=", " ", "-", "1">>,
    <<"y", " ", "=", " ", "\"", "s", "\"", " ", "/", "/", " ", "c", "\n",
      "/", "*", " ", "c", "\n", " ", "*", "/", " ", "z", " ", "=", " ",
      "~", "1">>,
    <<"f", "u", "n", "c", " ", "(">>,
    <<"f", "u", "n", "c", " ", "f", "(", "a", ":", " ", ")", " ", "{", " ",
      "}">>,
    <<"+", "@", " ", "i", "f", " ", "+">>,
    <<"i", "f", " ", "x", " ", "{", " ", ")", " ", "}">>}

Sources ==
    ShortSources \cup {TestSource, ParenSource, AssociativitySource}
    \cup TwoOperatorSources \cup IdentifierSources \cup ChainSources
    \cup {ExampleChainSource} \cup EmptyPrimarySources
    \cup MissingExpressionSources \cup TrailingCommaSources \cup BlockSources
    \cup IdentifierBinarySources \cup MissingConditionSources
    \cup UnclosedBlockSources \cup {ForValueSource, ForIndexValueSource}
    \cup BareReturnSources
    \cup ErrorSurvivalSources \cup TwoErrorSources \cup UnterminatedEscapeSources
    \cup UnterminatedSources \cup OtherSources

(* ===================== parser_parse as a state machine ================= *)

VARIABLES
    parser,         \* the Parser (with the Lexer it points to)
    declarations,   \* the AstList that parser_parse fills
    pc,             \* position of control: init, loop, check, done, hung,
                    \* freed; built and freed in the tests of the tree
    result,         \* the value returned by parser_parse; the tree of a test
    heap,           \* the live blocks of the tree in result
    faults          \* frees and reads of blocks that were not live

vars == <<parser, declarations, pc, result, heap, faults>>

\* token types an uninitialised Token may happen to hold
GarbageTypes == {"TOKEN_INT", "TOKEN_NEWLINE"}

\* main(): Lexer lexer; lexer_init(&lexer, source); Parser parser;
Init ==
    /\ \E source \in Sources :
          parser = [lexer |-> lexer_init(source), scan |-> <<>>,
                    current |-> make_token("TOKEN_INT", <<>>, 0, 0),
                    previous |-> make_token("TOKEN_INT", <<>>, 0, 0),
                    had_error |-> FALSE, panic_mode |-> FALSE,
                    errors |-> <<>>]
    /\ declarations = ast_list_create
    /\ pc = "init"
    /\ result = NULL
    /\ heap = {}
    /\ faults = {}

\* the place of the declaration list in the tree of the program
DeclarationsPath == <<Step("declarations", 0)>>

\* the blocks parser_parse holds: its declaration list and the trees in it
Held(decls) == ListAllocations(decls, DeclarationsPath, "node")

\* main: parser_init(&parser, &lexer);
\* parser_parse: declarations = ast_list_create()
ParserInit ==
    /\ pc = "init"
    /\ \E garbage \in GarbageTypes :
          parser' = parser_init(parser.lexer, garbage)
    /\ heap' = Held(declarations)
    /\ pc' = "loop"
    /\ UNCHANGED <<declarations, result, faults>>

\* parser_parse: decl = parser_parse_declaration(); if (decl) append
ParseDeclaration ==
    /\ pc = "loop"
    /\ ~parser_is_at_end(parser)
    /\ \E decl \in {parser_parse_declaration(parser)} :
          /\ parser' = decl.p
          /\ declarations' = IF decl.node # NULL /\ ~Hung(decl.p)
                             THEN ast_list_append(declarations, decl.node)
                             ELSE declarations
          /\ pc' = IF Hung(decl.p) THEN "hung" ELSE "check"
    /\ heap' = Held(declarations')
    /\ UNCHANGED <<result, faults>>

\* parser_parse: if (parser->panic_mode) parser_synchronize(parser)
Synchronize ==
    /\ pc = "check"
    /\ parser.panic_mode
    /\ parser' = parser_synchronize(parser)
    /\ pc' = "loop"
    /\ UNCHANGED <<declarations, result, heap, faults>>

SkipSynchronize ==
    /\ pc = "check"
    /\ ~parser.panic_mode
    /\ pc' = "loop"
    /\ UNCHANGED <<parser, declarations, result, heap, faults>>

\* parser_parse without its test of had_error
parser_parse_result_unchecked(p, decls) == ast_create_program(decls)

\* the value parser_parse returns for a Parser and a declaration list
parser_parse_result(p, decls) ==
    IF p.had_error THEN NULL ELSE ast_create_program(decls)

\* parser_parse freeing the list alone
free_declarations_list_only(decls) == ast_list_free(decls, DeclarationsPath)

\* parser_parse: for (i = 0; i < declarations->count; i++)
\*     ast_free_node(declarations->items[i]);
\* ast_list_free(declarations);
free_declarations(decls) ==
    free_items(decls, DeclarationsPath, 1, "node")
    \o ast_list_free(decls, DeclarationsPath)

\* parser_parse: the loop has ended; free the list or build the program
Finish ==
    /\ pc = "loop"
    /\ parser_is_at_end(parser)
    /\ result' = parser_parse_result(parser, declarations)
    /\ \E after \in {IF parser.had_error
                      THEN Replay(free_declarations(declarations), heap,
                                  faults)
                      ELSE [heap |-> heap \cup {Block(<<>>, "node")},
                            faults |-> faults]} :
          /\ heap' = after.heap
          /\ faults' = after.faults
    /\ pc' = "done"
    /\ UNCHANGED <<parser, declarations>>

\* ast_free_node(root): the memory after its frees and reads
Release(root) ==
    \E after \in {Replay(ast_free_node(root, <<>>), heap, faults)} :
        /\ heap' = after.heap
        /\ faults' = after.faults

\* main: if (program && !parser.had_error) ast_free_node(program)
FreeProgram ==
    /\ pc = "done"
    /\ result # NULL
    /\ ~parser.had_error
    /\ Release(result)
    /\ pc' = "freed"
    /\ UNCHANGED <<parser, declarations, result>>

Next ==
    \/ ParserInit
    \/ ParseDeclaration
    \/ Synchronize
    \/ SkipSynchronize
    \/ Finish
    \/ FreeProgram

Spec == Init /\ [][Next]_vars

(* ===================== trees built by hand (test_ast.c) ================= *)

\* the lists of at most MaxItems items of a set
ListsOf(items) == UNION {[1..n -> items] : n \in 0..MaxItems}

\* expressions without children, and no expression
LeafExpressions ==
    {NULL,
     ast_create_literal_int(42, 1, 1),
     ast_create_literal_string(<<"b", "i", "g">>, 1, 1),
     ast_create_identifier(<<"x">>, 1, 1)}

OtherLeaves ==
    {ast_create_literal_float(3, 1, 1),
     ast_create_literal_bool(TRUE, 1, 1),
     ast_create_literal_null(1, 1),
     ast_create_break(1, 1),
     ast_create_continue(1, 1),
     ast_create_import(<<"m">>, 1, 1)}

OptionalNames == {NULL_STR, <<"i", "n", "t">>}

\* expressions over the leaves
Expressions ==
    {ast_create_binary("OP_ADD", a, b, 1, 1) :
        a \in LeafExpressions, b \in LeafExpressions}
    \cup {ast_create_unary("OP_NEG", a, 1, 1) : a \in LeafExpressions}
    \cup {ast_create_call(ast_create_identifier(<<"f">>, 1, 1), args, 1, 1) :
             args \in ListsOf(LeafExpressions)}
    \cup {ast_create_index(a, b, 1, 1) :
             a \in LeafExpressions, b \in LeafExpressions}
    \cup {ast_create_member(a, <<"m">>, 1, 1) : a \in LeafExpressions}
    \cup {ast_create_array(elements, 1, 1) :
             elements \in ListsOf(LeafExpressions)}
    \cup {ast_create_dict(entries, 1, 1) :
             entries \in ListsOf({ast_create_dict_entry(k, v) :
                                     k \in LeafExpressions,
                                     v \in {NULL,
                                            ast_create_literal_int(42, 1, 1)}})}

\* a call with arguments, the operand of the statements
PrintCall ==
    ast_create_call(ast_create_identifier(<<"p", "r", "i", "n", "t">>, 1, 1),
                    <<ast_create_literal_string(<<"b", "i", "g">>, 1, 1)>>,
                    1, 1)

SimpleStatements ==
    {ast_create_var_decl(<<"x">>, type_name, init, 1, 1) :
        type_name \in OptionalNames, init \in LeafExpressions \cup {PrintCall}}
    \cup {ast_create_assign(a, b, 1, 1) :
             a \in LeafExpressions, b \in LeafExpressions}
    \cup {ast_create_expr_stmt(a, 1, 1) : a \in {NULL, PrintCall}}
    \cup {ast_create_return(a, 1, 1) : a \in {NULL, PrintCall}}

Bodies ==
    {NULL, ast_create_expr_stmt(PrintCall, 1, 1),
     ast_create_block(<<>>, 1, 1),
     ast_create_block(<<ast_create_return(PrintCall, 1, 1),
                        ast_create_break(1, 1)>>, 1, 1)}

Parameters ==
    {ast_create_parameter(<<"a">>, type_name, default_value) :
        type_name \in OptionalNames,
        default_value \in {NULL, ast_create_literal_int(42, 1, 1)}}

CompoundStatements ==
    {ast_create_if(c, t, e, 1, 1) :
        c \in {NULL, PrintCall}, t \in Bodies, e \in Bodies}
    \cup {ast_create_while(c, b, 1, 1) : c \in {NULL, PrintCall}, b \in Bodies}
    \cup {ast_create_for(<<"v">>, c, b, idx, 1, 1) :
             c \in {NULL, PrintCall}, b \in Bodies,
             idx \in {NULL_STR, <<"i">>}}
    \cup {ast_create_loop(b, 1, 1) : b \in Bodies}
    \cup {ast_create_block(stmts, 1, 1) : stmts \in ListsOf(Bodies)}
    \cup {ast_create_function(<<"f">>, params, b, ret, 1, 1) :
             params \in ListsOf(Parameters), b \in Bodies,
             ret \in OptionalNames}

Methods ==
    {NULL_LIST, <<>>,
     <<ast_create_function(<<"f">>, <<ast_create_parameter(<<"a">>,
                                          NULL_STR, NULL)>>,
                           ast_create_block(<<>>, 1, 1), NULL_STR, 1, 1)>>}

Fields ==
    {NULL_LIST, <<>>,
     <<ast_create_var_decl(<<"x">>, <<"i", "n", "t">>, NULL, 1, 1)>>}

Declarations ==
    {ast_create_class(<<"C">>, methods, fields, 1, 1) :
        methods \in Methods, fields \in Fields}
    \cup {ast_create_program(decls) :
             decls \in {NULL_LIST}
                 \cup ListsOf({ast_create_import(<<"m">>, 1, 1),
                               ast_create_function(<<"m", "a", "i", "n">>,
                                   <<>>,
                                   ast_create_block(
                                       <<ast_create_var_decl(<<"x">>,
                                             NULL_STR,
                                             ast_create_literal_int(42, 1, 1),
                                             1, 1),
                                         ast_create_expr_stmt(PrintCall, 1, 1)>>,
                                       1, 1),
                                   NULL_STR, 1, 1)})}

\* the trees the tests build
HandBuiltTrees ==
    LeafExpressions \cup OtherLeaves \cup Expressions \cup SimpleStatements
    \cup CompoundStatements \cup Declarations

\* test_ast.c: a test has built its tree with the constructors
TestInit ==
    /\ parser = [lexer |-> lexer_init(<<>>), scan |-> <<>>,
                 current |-> make_token("TOKEN_EOF", <<>>, 0, 0),
                 previous |-> make_token("TOKEN_EOF", <<>>, 0, 0),
                 had_error |-> FALSE, panic_mode |-> FALSE, errors |-> <<>>]
    /\ declarations = ast_list_create
    /\ pc = "built"
    /\ \E tree \in HandBuiltTrees :
          /\ result = tree
          /\ heap = Allocations(tree, <<>>)
    /\ faults = {}

\* test_ast.c: ast_free_node(tree)
FreeTree ==
    /\ pc = "built"
    /\ Release(result)
    /\ pc' = "freed"
    /\ UNCHANGED <<parser, declarations, result>>

TestNext == FreeTree

TestSpec == TestInit /\ [][TestNext]_vars

\* a step of the program: every action of Next moves pc, and one of them
\* is enabled as long as pc is neither done nor hung
Running ==
    /\ pc \in {"init", "loop", "check"}
    /\ pc' \in {"loop", "check", "done", "hung"}
    /\ pc' # pc

\* the program keeps running while it has a step to take: weak fairness of
\* Next, stated on pc, which every step of Next changes
FairSpec == Spec /\ WF_pc(Running)

\* the source text that was given to lexer_init
Source == parser.lexer.source

TypeOK ==
    /\ pc \in {"init", "loop", "check", "done", "hung", "built", "freed"}
    /\ parser.had_error \in BOOLEAN
    /\ parser.panic_mode \in BOOLEAN
    /\ Len(parser.errors) <= MaxErrors
    /\ pc \in {"loop", "check", "done"} =>
           Head(parser.scan) = lexer_next_token(parser.lexer)

(* ===================== properties ====================================== *)

\* C1: parser_parse terminates on every source text: its loop "parse one
\* declaration, then synchronize if panic mode is set" reaches the end of
\* the input after finitely many iterations and parser_parse returns.
C1_Terminates == <>(pc = "done")

\* node a stands before node b in the source text
Before(a, b) == a.line < b.line \/ (a.line = b.line /\ a.column < b.column)

InSourceOrder(list) ==
    \A i, j \in 1..Len(list) : i < j => Before(list[i], list[j])

\* C2: when parser_parse returns, its result is NULL if an error was
\* reported since parser_init (had_error), and otherwise it is a Program
\* node that holds the parsed declarations, which stand in source order.
C2_ResultReflectsErrors ==
    pc = "done" =>
        IF parser.had_error
        THEN result = NULL
        ELSE /\ result # NULL
             /\ result.type = "AST_PROGRAM"
             /\ result.declarations = declarations
             /\ InSourceOrder(result.declarations)

\* parser_parse has returned NULL although declarations had been collected
C2_Witness ==
    /\ pc = "done"
    /\ parser.had_error
    /\ result = NULL
    /\ declarations # <<>>

RECURSIVE FullyFormed(_)
\* no operand, initializer, condition, body, index, argument or element
\* of the tree under node is NULL
FullyFormed(node) ==
    CASE node.type = "AST_BINARY_EXPR" ->
             /\ node.left # NULL /\ node.right # NULL
             /\ FullyFormed(node.left) /\ FullyFormed(node.right)
      [] node.type = "AST_UNARY_EXPR" ->
             node.operand # NULL /\ FullyFormed(node.operand)
      [] node.type = "AST_VAR_DECL" ->
             node.initializer # NULL /\ FullyFormed(node.initializer)
      [] node.type = "AST_IF_STMT" ->
             /\ node.condition # NULL /\ node.then_branch # NULL
             /\ FullyFormed(node.condition) /\ FullyFormed(node.then_branch)
             /\ FullyFormed(node.else_branch)
      [] node.type = "AST_WHILE_STMT" ->
             /\ node.condition # NULL /\ node.body # NULL
             /\ FullyFormed(node.condition) /\ FullyFormed(node.body)
      [] node.type = "AST_INDEX_EXPR" ->
             /\ node.index # NULL
             /\ FullyFormed(node.index) /\ FullyFormed(node.object)
      [] node.type = "AST_CALL_EXPR" ->
             /\ \A i \in 1..Len(node.arguments) :
                    node.arguments[i] # NULL /\ FullyFormed(node.arguments[i])
             /\ FullyFormed(node.callee)
      [] node.type = "AST_ARRAY_EXPR" ->
             \A i \in 1..Len(node.elements) :
                 node.elements[i] # NULL /\ FullyFormed(node.elements[i])
      [] node.type = "AST_MEMBER_EXPR" -> FullyFormed(node.object)
      [] node.type = "AST_EXPR_STMT" -> FullyFormed(node.expr_stmt)
      [] node.type = "AST_FOR_STMT" ->
             FullyFormed(node.iterable) /\ FullyFormed(node.body)
      [] node.type = "AST_LOOP_STMT" -> FullyFormed(node.body)
      [] node.type = "AST_RETURN_STMT" -> FullyFormed(node.value)
      [] node.type = "AST_BLOCK_STMT" ->
             \A i \in 1..Len(node.statements) : FullyFormed(node.statements[i])
      [] node.type = "AST_FUNCTION_DECL" -> FullyFormed(node.body)
      [] node.type = "AST_PROGRAM" ->
             \A i \in 1..Len(node.declarations) :
                 FullyFormed(node.declarations[i])
      [] OTHER -> TRUE

\* C3: a Program that parser_parse returns is fully formed: every binary
\* node has both operands, every unary node its operand, every variable
\* declaration an initializer, every if and while node a condition and a
\* body, every index node an index, and no argument or element is NULL.
C3_ProgramFullyFormed ==
    (pc = "done" /\ result # NULL) => FullyFormed(result)

\* C4: had_error is sticky: once it is true after parser_init, no step of
\* the parser sets it back to false.
C4_HadErrorSticky ==
    [][(pc # "init" /\ parser.had_error) => parser'.had_error]_vars

\* parsing goes on, after a synchronization, with had_error still set
C4_Witness ==
    /\ pc = "loop"
    /\ parser.had_error
    /\ ~parser.panic_mode
    /\ ~parser_is_at_end(parser)
    /\ declarations # <<>>

C5_Messages == {"Expected expression", "Expected ')' after expression"}

C5_ExpectedTypes ==
    {"TOKEN_RIGHT_PAREN", "TOKEN_RIGHT_BRACKET", "TOKEN_RIGHT_BRACE",
     "TOKEN_LEFT_PAREN", "TOKEN_LEFT_BRACE", "TOKEN_IDENTIFIER", "TOKEN_EQUAL",
     "TOKEN_IN"}

\* each error-reporting call leaves the Parser (flags, messages written,
\* tokens, lexer) as it is
C5_ReportsAreNoOps ==
    \A message \in C5_Messages :
        /\ parser_error_at(parser, parser.current, message) = parser
        /\ parser_error_at(parser, parser.previous, message) = parser
        /\ parser_error(parser, message) = parser
        /\ parser_error_at_current(parser, message) = parser
        /\ \A type \in C5_ExpectedTypes \ {parser.current.type} :
               parser_expect(parser, type, message).p = parser

\* C5: while panic_mode is true every error-reporting call (parser_error_at,
\* parser_error, parser_error_at_current, a failed parser_expect) is a
\* no-op: no message, had_error, panic_mode and the tokens unchanged; so a
\* declaration parsed in panic mode writes no message at all.
C5_PanicSilencesReports ==
    /\ [](parser.panic_mode => C5_ReportsAreNoOps)
    /\ [][(pc = "loop" /\ parser.panic_mode) =>
              /\ parser'.errors = parser.errors
              /\ parser'.had_error = parser.had_error
              /\ parser'.panic_mode]_vars

\* a declaration has been parsed in panic mode, its token being no
\* expression, and the only message is the one written before it
C5_Witness ==
    /\ pc = "check"
    /\ parser.panic_mode
    /\ Len(parser.errors) = 1
    /\ parser.errors[1].message = "Unexpected character"
    /\ parser.current.type = "TOKEN_PLUS"

\* C6: when parser_synchronize returns, panic_mode is false, whatever the
\* tokens are that it discarded.
C6_SynchronizeClearsPanic ==
    [][(pc = "check" /\ parser.panic_mode) => ~parser'.panic_mode]_vars

C7_ConstructStarts ==
    {"TOKEN_FUNC", "TOKEN_IF", "TOKEN_WHILE", "TOKEN_FOR", "TOKEN_LOOP",
     "TOKEN_RETURN", "TOKEN_IMPORT", "TOKEN_CLASS"}

\* the number of results of lexer_next_token taken between Parser p and
\* the later Parser q
Taken(p, q) ==
    IF q.current.type # "TOKEN_EOF" THEN Len(p.scan) - Len(q.scan)
    ELSE IF p.current.type = "TOKEN_EOF" THEN 0 ELSE Len(p.scan)

\* the tokens that were the current token between p and q, q's excluded
Discarded(p, q) ==
    IF Taken(p, q) = 0 THEN {}
    ELSE {p.current} \cup {p.scan[i].tok : i \in 1..(Taken(p, q) - 1)}

\* C7: when parser_synchronize returns, the current token is the end of
\* input, or the previous token is a newline, or the current token is one
\* of func, if, while, for, loop, return, import, class; and none of the
\* tokens it discarded is one of these eight.
C7_SynchronizeStopsAtBoundary ==
    [][(pc = "check" /\ parser.panic_mode) =>
          /\ \/ parser'.current.type = "TOKEN_EOF"
             \/ parser'.previous.type = "TOKEN_NEWLINE"
             \/ parser'.current.type \in C7_ConstructStarts
          /\ \A token \in Discarded(parser, parser') :
                 token.type \notin C7_ConstructStarts]_vars

\* parser_synchronize has discarded '}' and '2' and stopped at 'if'
C7_Witness ==
    /\ pc = "loop"
    /\ ~parser.panic_mode
    /\ parser.had_error
    /\ declarations = <<>>
    /\ parser.current.type = "TOKEN_IF"
    /\ parser.previous.lexeme = <<"2">>
    /\ Len(parser.errors) = 1
    /\ parser.errors[1].text = <<"}">>

\* C8: for a statement that lacks its closing parenthesis followed by a
\* well-formed if statement, an error is reported for the first (that ')'
\* was expected) and the last declaration built is the if node, with its
\* condition and its then-branch.
C8_ErrorSurvival ==
    (pc = "done" /\ Source \in ErrorSurvivalSources) =>
        /\ parser.had_error
        /\ parser.errors # <<>>
        /\ parser.errors[1].message \in {"Expected ')' after expression",
                                         "Expected ')' after arguments"}
        /\ declarations # <<>>
        /\ declarations[Len(declarations)].type = "AST_IF_STMT"
        /\ declarations[Len(declarations)].line = 2
        /\ declarations[Len(declarations)].condition # NULL
        /\ declarations[Len(declarations)].then_branch # NULL

\* 'y = (2 + 3' and 'if x { y = 1 }' have been parsed
C8_Witness ==
    /\ pc = "done"
    /\ Source \in ErrorSurvivalSources
    /\ Len(parser.errors) = 1
    /\ Len(declarations) = 2
    /\ declarations[1].type = "AST_VAR_DECL"
    /\ declarations[2].type = "AST_IF_STMT"
    /\ declarations[2].then_branch.type = "AST_BLOCK_STMT"
    /\ Len(declarations[2].then_branch.statements) = 1

\* C9: for two malformed top-level statements, each on its own line,
\* parser_parse writes an error message for each of them.
C9_BothErrorsReported ==
    (pc = "done" /\ Source \in TwoErrorSources) => Len(parser.errors) >= 2

\* the levels of the chain, the loosest first
C10_Level(o) ==
    CASE o = <<"|", "|">> -> 1
      [] o = <<"&", "&">> -> 2
      [] o \in {<<"=", "=">>, <<"!", "=">>} -> 3
      [] o \in {<<"<">>, <<">">>, <<"<", "=">>, <<">", "=">>} -> 4
      [] o \in {<<"+">>, <<"-">>} -> 5
      [] o \in {<<"*">>, <<"/">>, <<"%">>} -> 6

C10_Op(o) ==
    CASE o = <<"|", "|">> -> "OP_OR"
      [] o = <<"&", "&">> -> "OP_AND"
      [] o = <<"=", "=">> -> "OP_EQ"
      [] o = <<"!", "=">> -> "OP_NE"
      [] o = <<"<">> -> "OP_LT"
      [] o = <<">">> -> "OP_GT"
      [] o = <<"<", "=">> -> "OP_LE"
      [] o = <<">", "=">> -> "OP_GE"
      [] o = <<"+">> -> "OP_ADD"
      [] o = <<"-">> -> "OP_SUB"
      [] o = <<"*">> -> "OP_MUL"
      [] o = <<"/">> -> "OP_DIV"
      [] o = <<"%">> -> "OP_MOD"

IsInt(node, value) ==
    /\ node.type = "AST_LITERAL_EXPR"
    /\ node.lit = "LIT_INT"
    /\ node.int_value = value

IsBinary(node, op) == node.type = "AST_BINARY_EXPR" /\ node.op = op

\* node is op(a, inner(b, c))
NestsRight(node, op, inner, a, b, c) ==
    /\ IsBinary(node, op)
    /\ IsInt(node.left, a)
    /\ IsBinary(node.right, inner)
    /\ IsInt(node.right.left, b)
    /\ IsInt(node.right.right, c)

\* node is op(inner(a, b), c)
NestsLeft(node, op, inner, a, b, c) ==
    /\ IsBinary(node, op)
    /\ IsBinary(node.left, inner)
    /\ IsInt(node.left.left, a)
    /\ IsInt(node.left.right, b)
    /\ IsInt(node.right, c)

\* program is a Program of one expression statement
OneExpression(program) ==
    /\ program # NULL
    /\ Len(program.declarations) = 1
    /\ program.declarations[1].type = "AST_EXPR_STMT"

\* C10: in '2 o1 3 o2 4', o1 and o2 binary operators of two different
\* levels of the chain or < and < equality < relational < additive <
\* multiplicative, the operator of the higher level is nested below the
\* other; '2 + 3 * 4' is add(2, mul(3, 4)), '(2 + 3) * 4' is mul(add(2, 3), 4).
C10_Precedence ==
    pc = "done" =>
        /\ \A o1, o2 \in BinaryOperators :
               (/\ Source = <<"2">> \o o1 \o <<"3">> \o o2 \o <<"4">>
                /\ C10_Level(o1) # C10_Level(o2)) =>
                   /\ OneExpression(result)
                   /\ IF C10_Level(o1) < C10_Level(o2)
                      THEN NestsRight(result.declarations[1].expr_stmt,
                                      C10_Op(o1), C10_Op(o2), 2, 3, 4)
                      ELSE NestsLeft(result.declarations[1].expr_stmt,
                                     C10_Op(o2), C10_Op(o1), 2, 3, 4)
        /\ Source = ParenSource =>
               /\ OneExpression(result)
               /\ NestsLeft(result.declarations[1].expr_stmt,
                            "OP_MUL", "OP_ADD", 2, 3, 4)

\* '2+3*4' has been parsed to add(2, mul(3, 4))
C10_Witness ==
    /\ pc = "done"
    /\ Source = <<"2", "+", "3", "*", "4">>
    /\ OneExpression(result)
    /\ NestsRight(result.declarations[1].expr_stmt, "OP_ADD", "OP_MUL", 2, 3, 4)

\* C11: in '2 o1 3 o2 4', o1 and o2 binary operators of one level of the
\* chain, the result is the node of o2 with the node of o1 over 2 and 3 as
\* its left child and 4 as its right child; '8 - 3 - 2' is sub(sub(8, 3), 2).
C11_LeftAssociative ==
    pc = "done" =>
        /\ \A o1, o2 \in BinaryOperators :
               (/\ Source = <<"2">> \o o1 \o <<"3">> \o o2 \o <<"4">>
                /\ C10_Level(o1) = C10_Level(o2)) =>
                   /\ OneExpression(result)
                   /\ NestsLeft(result.declarations[1].expr_stmt,
                                C10_Op(o2), C10_Op(o1), 2, 3, 4)
        /\ Source = AssociativitySource =>
               /\ OneExpression(result)
               /\ NestsLeft(result.declarations[1].expr_stmt,
                            "OP_SUB", "OP_SUB", 8, 3, 2)

\* '8 - 3 - 2' has been parsed to sub(sub(8, 3), 2)
C11_Witness ==
    /\ pc = "done"
    /\ Source = AssociativitySource
    /\ OneExpression(result)
    /\ NestsLeft(result.declarations[1].expr_stmt, "OP_SUB", "OP_SUB", 8, 3, 2)

\* the node a call, index or member chain is built on
RECURSIVE ChainBase(_)
ChainBase(node) ==
    CASE node.type = "AST_CALL_EXPR" -> ChainBase(node.callee)
      [] node.type \in {"AST_INDEX_EXPR", "AST_MEMBER_EXPR"} ->
             ChainBase(node.object)
      [] OTHER -> node

PostfixStarts == {"TOKEN_LEFT_PAREN", "TOKEN_LEFT_BRACKET", "TOKEN_DOT"}

\* the statement parser_parse has just appended
LastDeclaration == declarations'[Len(declarations')]

\* parser_parse parses a top-level statement whose first token is an
\* identifier
C12_IdentifierStatement ==
    /\ pc = "loop"
    /\ pc' # "loop"
    /\ parser.current.type = "TOKEN_IDENTIFIER"

\* the token that follows the identifier, and the one after that
C12_Following == parser_advance(parser).current

C12_TypeToken == parser_advance(parser_advance(parser)).current

\* C12: a statement that begins with an identifier is settled by the token
\* that follows it: ':' gives a variable declaration with the declared type
\* name, '=' a variable declaration with no declared type, any other token an
\* expression statement whose expression is built on the identifier and
\* takes in the call, index and member chain that follows.
C12_IdentifierDisambiguation ==
    [][C12_IdentifierStatement =>
        /\ pc' = "check"
        /\ Len(declarations') = Len(declarations) + 1
        /\ CASE C12_Following.type = "TOKEN_COLON" ->
                    /\ LastDeclaration.type = "AST_VAR_DECL"
                    /\ LastDeclaration.name = string_dup_n(parser.current)
                    /\ LastDeclaration.type_name # NULL_STR
                    /\ C12_TypeToken.type = "TOKEN_IDENTIFIER" =>
                           LastDeclaration.type_name =
                               string_dup_n(C12_TypeToken)
             [] C12_Following.type = "TOKEN_EQUAL" ->
                    /\ LastDeclaration.type = "AST_VAR_DECL"
                    /\ LastDeclaration.name = string_dup_n(parser.current)
                    /\ LastDeclaration.type_name = NULL_STR
             [] OTHER ->
                    /\ LastDeclaration.type = "AST_EXPR_STMT"
                    /\ ChainBase(LastDeclaration.expr_stmt) =
                           ast_create_identifier(string_dup_n(parser.current),
                               parser.current.line, parser.current.column)
                    /\ parser'.current.type \notin PostfixStarts]_vars

\* 'print("Hello")' has been parsed to an expression statement of a call of
\* the identifier print with the one argument "Hello"
C12_Witness ==
    /\ pc = "done"
    /\ Source = PrintSource
    /\ OneExpression(result)
    /\ result.declarations[1].expr_stmt.type = "AST_CALL_EXPR"
    /\ result.declarations[1].expr_stmt.callee.type = "AST_IDENTIFIER_EXPR"
    /\ result.declarations[1].expr_stmt.callee.identifier =
           <<"p", "r", "i", "n", "t">>
    /\ Len(result.declarations[1].expr_stmt.arguments) = 1
    /\ result.declarations[1].expr_stmt.arguments[1].lit = "LIT_STRING"
    /\ result.declarations[1].expr_stmt.arguments[1].string_value =
           <<"H", "e", "l", "l", "o">>

\* the kinds of the postfix nodes of a chain, the innermost first
RECURSIVE ChainKinds(_)
ChainKinds(node) ==
    CASE node.type = "AST_CALL_EXPR" ->
             Append(ChainKinds(node.callee), node.type)
      [] node.type \in {"AST_INDEX_EXPR", "AST_MEMBER_EXPR"} ->
             Append(ChainKinds(node.object), node.type)
      [] OTHER -> <<>>

IsIdentifier(node, name) ==
    node.type = "AST_IDENTIFIER_EXPR" /\ node.identifier = name

\* program is a Program of one variable declaration
OneDeclaration(program) ==
    /\ program # NULL
    /\ Len(program.declarations) = 1
    /\ program.declarations[1].type = "AST_VAR_DECL"

\* C13: n call, index and member operations after a primary give n nested
\* postfix nodes, the first operation innermost and the last outermost;
\* 'a.b(x)[0].c' is member c of index of call of member b of identifier a.
C13_PostfixChaining ==
    pc = "done" =>
        /\ \A chain \in Chains :
               Source = ChainSource(chain) =>
                   /\ OneDeclaration(result)
                   /\ ChainKinds(result.declarations[1].initializer) = chain
                   /\ IsIdentifier(
                          ChainBase(result.declarations[1].initializer),
                          <<"a">>)
        /\ Source = ExampleChainSource =>
               /\ OneDeclaration(result)
               /\ LET c == result.declarations[1].initializer
                  IN  /\ c.type = "AST_MEMBER_EXPR" /\ c.member = <<"c">>
                      /\ c.object.type = "AST_INDEX_EXPR"
                      /\ IsInt(c.object.index, 0)
                      /\ c.object.object.type = "AST_CALL_EXPR"
                      /\ Len(c.object.object.arguments) = 1
                      /\ IsIdentifier(c.object.object.arguments[1], <<"x">>)
                      /\ c.object.object.callee.type = "AST_MEMBER_EXPR"
                      /\ c.object.object.callee.member = <<"b">>
                      /\ IsIdentifier(c.object.object.callee.object, <<"a">>)

\* 'y = a.b(x)[0].c' has been parsed and its initializer is a chain of four
\* postfix nodes
C13_Witness ==
    /\ pc = "done"
    /\ Source = ExampleChainSource
    /\ OneDeclaration(result)
    /\ ChainKinds(result.declarations[1].initializer) =
           <<"AST_MEMBER_EXPR", "AST_CALL_EXPR", "AST_INDEX_EXPR",
             "AST_MEMBER_EXPR">>

\* the cursors from p to the end of the token stream
RECURSIVE Cursors(_)
Cursors(p) ==
    IF parser_is_at_end(p) THEN {p} ELSE {p} \cup Cursors(parser_advance(p))

\* parse_postfix_continue as parser_parse_statement calls it: the
\* identifier under the cursor of p is consumed and its node built by hand
ContinueFrom(p) ==
    parse_postfix_continue(parser_advance(p),
        ast_create_identifier(string_dup_n(p.current), p.current.line,
                              p.current.column))

\* C14: wherever the cursor is on an identifier token t, parse_postfix_continue
\* given the identifier node of t and the cursor after t returns the tree
\* parse_postfix returns from the cursor on t, with the same diagnostics
\* reported, the same error flags and the same final cursor.
C14_ContinueEquivalent ==
    pc \in {"loop", "check"} =>
        \A p \in Cursors(parser) :
            p.current.type = "TOKEN_IDENTIFIER" =>
                ContinueFrom(p) = parse_postfix(p)

\* the cursor is on an identifier that begins a chain of three postfix
\* operations, and both functions return that chain
C14_Witness ==
    /\ pc = "loop"
    /\ parser.current.type = "TOKEN_IDENTIFIER"
    /\ Len(ChainKinds(parse_postfix(parser).node)) = 3
    /\ ContinueFrom(parser) = parse_postfix(parser)

\* the cursor of p is on a token of type open and the next token is of
\* type close
AtPair(p, open, close) ==
    /\ p.current.type = open
    /\ parser_advance(p).current.type = close

\* parser_error_at has taken p to after with message: the error flags are
\* set and, if p was not in panic mode and stderr is kept, the diagnostic
\* is the last one written
Reported(p, after, message) ==
    /\ after.had_error
    /\ after.panic_mode
    /\ (~p.panic_mode /\ Len(p.errors) < MaxErrors) =>
           /\ Len(after.errors) = Len(p.errors) + 1
           /\ after.errors[Len(after.errors)].message = message

\* C15: '()' where a primary expression is expected reports an error and
\* gives no node; '[]' there gives an array literal whose element list is
\* present and empty, and reports no error: nothing happens to the parser
\* but the two tokens being consumed.
C15_EmptyParenAndArray ==
    pc \in {"loop", "check"} =>
        \A p \in Cursors(parser) :
            /\ AtPair(p, "TOKEN_LEFT_PAREN", "TOKEN_RIGHT_PAREN") =>
                   /\ parser_parse_primary(p).node = NULL
                   /\ Reported(parser_advance(p), parser_parse_primary(p).p,
                               "Expected expression after '('")
            /\ AtPair(p, "TOKEN_LEFT_BRACKET", "TOKEN_RIGHT_BRACKET") =>
                   /\ parser_parse_primary(p).node.type = "AST_ARRAY_EXPR"
                   /\ parser_parse_primary(p).node.elements = ast_list_create
                   /\ parser_parse_primary(p).p =
                          parser_advance(parser_advance(p))

\* 'y = []' has been parsed with no error to a declaration whose initializer
\* is an array literal of no elements
C15_Witness ==
    /\ pc = "done"
    /\ Source = EmptyArraySource
    /\ OneDeclaration(result)
    /\ result.declarations[1].initializer.type = "AST_ARRAY_EXPR"
    /\ result.declarations[1].initializer.elements = ast_list_create
    /\ parser.errors = <<>>

\* C16: where an expression is required (an initializer after '=', the
\* operand of a unary or binary operator, the index between '[' and ']', a
\* call argument, a condition) and the current token begins no primary
\* expression, be it the end of the input, ')' or ']', the parser reports an
\* error: had_error is set and parser_parse returns no program.
C16_MissingExpressionReported ==
    (pc = "done" /\ Source \in MissingExpressionSources) =>
        /\ parser.had_error
        /\ result = NULL

\* C17: an array literal with a comma before its ']' , '[e1, ..., en,]', is
\* not accepted: the parser reports an error and returns no program, so no
\* array node with a null element is produced without an error.
C17_TrailingCommaRejected ==
    (pc = "done" /\ Source \in TrailingCommaSources) =>
        /\ parser.had_error
        /\ result = NULL

\* C18: parser_parse_statement chooses by the current token, in the order
\* identifier, if, while, for, loop, return, break, continue, '{'; a
\* statement that begins with '{' gives a block node, and only the other
\* tokens are parsed as a bare expression statement.
C18_BraceBeginsBlock ==
    (pc = "done" /\ Source \in BlockSources) =>
        /\ result # NULL
        /\ Len(result.declarations) >= 1
        /\ result.declarations[1].type = "AST_BLOCK_STMT"

\* C19: ast_free_node frees every block reachable from the root (nodes,
\* lists and their item arrays, parameters, dictionary entries, owned
\* strings) exactly once and reads no block after it is freed, whatever the
\* kinds and the nesting of the nodes; ast_free_node(NULL) does nothing.
C19_FreesEachBlockOnce ==
    pc = "freed" =>
        /\ heap = {}
        /\ faults = {}
        /\ Len(SelectSeq(ast_free_node(result, <<>>),
                         LAMBDA e : e.op = "free")) =
               Cardinality(Allocations(result, <<>>))
        /\ result = NULL => ast_free_node(result, <<>>) = <<>>

\* a function with a typed parameter that has a default value has been freed
C19_Witness ==
    /\ pc = "freed"
    /\ result.type = "AST_FUNCTION_DECL"
    /\ Len(result.parameters) = 2
    /\ result.parameters[1].type_name # NULL_STR
    /\ result.parameters[1].default_value # NULL
    /\ result.body.type = "AST_BLOCK_STMT"
    /\ heap = {}

\* C20: a statement that begins with an identifier and is an expression is
\* taken as one expression statement: when a binary operator follows the
\* postfix chain of the identifier ('a + b', 'f(x) == 1'), the statement is
\* the expression statement of the whole binary expression, and the next
\* statement begins after it.
C20_WholeExpressionStatement ==
    (pc = "done" /\ Source \in IdentifierBinarySources) =>
        /\ result # NULL
        /\ Len(result.declarations) >= 1
        /\ result.declarations[1].type = "AST_EXPR_STMT"
        /\ result.declarations[1].expr_stmt.type = "AST_BINARY_EXPR"

\* C21: an if statement without a condition reports an error and is parsed
\* on: parse_if_statement parses the then-branch and the optional
\* else-branch and returns an if node whose condition is null.
C21_IfWithoutConditionParsedOn ==
    (pc = "done" /\ Source \in MissingConditionSources) =>
        /\ parser.had_error
        /\ Len(declarations) >= 1
        /\ declarations[1].type = "AST_IF_STMT"
        /\ declarations[1].condition = NULL
        /\ declarations[1].then_branch.type = "AST_BLOCK_STMT"

\* the statements of a list are nodes and stand in the order of the source
InOrder(statements) ==
    /\ \A i \in 1..Len(statements) : statements[i] # NULL
    /\ \A i \in 1..(Len(statements) - 1) :
           Before(statements[i], statements[i + 1])

\* the cursor of p is on a '{' whose block the end of the input cuts short
AtUnclosedBlock(p) ==
    /\ p.current.type = "TOKEN_LEFT_BRACE"
    /\ block_loop(ast_list_create, parser_advance(p)).p.current.type =
           "TOKEN_EOF"

\* C22: a block that the end of the input reaches before its '}' reports
\* an error, and parse_block_statement returns a block node all the same:
\* its statement list is present, may be empty, and holds in their order
\* the statements parsed before the end of the input, none of them null.
C22_UnclosedBlock ==
    pc \in {"loop", "check"} =>
        \A p \in Cursors(parser) :
            AtUnclosedBlock(p) =>
                /\ parse_block_statement(p).node.type = "AST_BLOCK_STMT"
                /\ parse_block_statement(p).node.statements # NULL_LIST
                /\ parse_block_statement(p).node.statements =
                       block_loop(ast_list_create, parser_advance(p)).list
                /\ InOrder(parse_block_statement(p).node.statements)
                /\ Reported(block_loop(ast_list_create, parser_advance(p)).p,
                            parse_block_statement(p).p,
                            "Expected '}' after block")

\* 'if x { y = 1 (line break) z = 2' has been parsed: the then-branch is a
\* block of the two declarations and the missing '}' has been reported
C22_Witness ==
    /\ pc = "done"
    /\ Source = UnclosedBlockSource
    /\ Len(declarations) = 1
    /\ declarations[1].type = "AST_IF_STMT"
    /\ declarations[1].then_branch.type = "AST_BLOCK_STMT"
    /\ Len(declarations[1].then_branch.statements) = 2
    /\ parser.errors[1].message = "Expected '}' after block"

\* program is a Program of one for statement
OneFor(program) ==
    /\ program # NULL
    /\ Len(program.declarations) = 1
    /\ program.declarations[1].type = "AST_FOR_STMT"

\* C23: 'for i in X' gives a for node whose value variable is i and which
\* has no index variable; 'for i, v in X' gives a for node whose index
\* variable is i, the first name, and whose value variable is v, the second.
C23_ForBindingRoles ==
    pc = "done" =>
        /\ Source = ForValueSource =>
               /\ OneFor(result)
               /\ result.declarations[1].variable = <<"i">>
               /\ result.declarations[1].index_var = NULL_STR
        /\ Source = ForIndexValueSource =>
               /\ OneFor(result)
               /\ result.declarations[1].index_var = <<"i">>
               /\ result.declarations[1].variable = <<"v">>

\* 'for i, v in xs { }' has been parsed to a for node of index i and value v
C23_Witness ==
    /\ pc = "done"
    /\ Source = ForIndexValueSource
    /\ OneFor(result)
    /\ result.declarations[1].index_var = <<"i">>
    /\ result.declarations[1].variable = <<"v">>
    /\ IsIdentifier(result.declarations[1].iterable, <<"x", "s">>)

\* the tokens parser_parse_primary and parse_unary accept as the first
\* token of an expression
ExpressionStarts ==
    {"TOKEN_INT", "TOKEN_FLOAT", "TOKEN_STRING", "TOKEN_TRUE", "TOKEN_FALSE",
     "TOKEN_IDENTIFIER", "TOKEN_LEFT_PAREN", "TOKEN_LEFT_BRACKET",
     "TOKEN_MINUS", "TOKEN_NOT", "TOKEN_TILDE"}

\* C24: a return carries no value whenever the token after 'return' begins
\* no expression, be it '}', the end of the input or any other token that
\* is neither the first token of a primary expression nor a unary operator:
\* parse_return_statement consumes nothing after 'return', reports no error
\* and returns a return node whose value is null.
C24_BareReturn ==
    pc \in {"loop", "check"} =>
        \A p \in Cursors(parser) :
            (/\ p.current.type = "TOKEN_RETURN"
             /\ parser_advance(p).current.type \notin ExpressionStarts) =>
                parse_return_statement(parser_advance(p)) =
                    R(ast_create_return(NULL, p.current.line, p.current.column),
                      parser_advance(p))

\* the number of error tokens the lexer returns next, from the token at
\* position i of the tokens ahead of p
RECURSIVE ErrorsAhead(_, _)
ErrorsAhead(p, i) ==
    IF i <= Len(p.scan) /\ p.scan[i].tok.type = "TOKEN_ERROR"
    THEN 1 + ErrorsAhead(p, i + 1)
    ELSE 0

\* C25: when parser_advance returns, the current token is not an error
\* token: it is the first token the lexer returns that is none.  If error
\* tokens were pulled, had_error and panic mode are set, and the message of
\* the first one is reported unless the parser was in panic mode (the later
\* ones are silenced by the panic mode the first one sets).  Otherwise
\* nothing is reported.
C25_ErrorTokensSkipped ==
    pc \in {"loop", "check"} =>
        /\ parser.current.type # "TOKEN_ERROR"
        /\ \A p \in Cursors(parser) :
               ~parser_is_at_end(p) =>
                   /\ parser_advance(p).current.type # "TOKEN_ERROR"
                   /\ parser_advance(p).current =
                          p.scan[ErrorsAhead(p, 1) + 1].tok
                   /\ parser_advance(p).previous = p.current
                   /\ IF ErrorsAhead(p, 1) = 0
                      THEN /\ parser_advance(p).errors = p.errors
                           /\ parser_advance(p).had_error = p.had_error
                           /\ parser_advance(p).panic_mode = p.panic_mode
                      ELSE /\ Reported(p, parser_advance(p),
                                       p.scan[1].tok.lexeme[1])
                           /\ Len(parser_advance(p).errors) <=
                                  Len(p.errors) + 1

\* parser_init has pulled an error token and then an identifier: the error
\* is reported and the identifier is the current token
C25_Witness ==
    /\ pc = "loop"
    /\ declarations = <<>>
    /\ parser.current.type = "TOKEN_IDENTIFIER"
    /\ parser.had_error
    /\ Len(parser.errors) = 1
    /\ parser.errors[1].at = "none"

\* C26: when parser_parse returns NULL for a failed parse, nothing of the
\* tree it had assembled is live: the declaration list, its item array and
\* every block of every declaration in it (nodes, lists, parameters,
\* strings) have been freed, each once.  In this model every node a parse
\* function builds is part of the node it returns, so the declarations
\* hold every block of the parse.
C26_FailedParseFreesAll ==
    (pc = "done" /\ result = NULL) =>
        /\ heap = {}
        /\ faults = {}

\* while parser_parse runs, and when it returns a program, the live blocks
\* are those of the declaration list, and of the program node
HeapHoldsTree ==
    /\ pc \in {"loop", "check"} => heap = Held(declarations)
    /\ (pc = "done" /\ result # NULL) => heap = Allocations(result, <<>>)

\* a parse that failed after it had gathered an if statement has returned
C26_Witness ==
    /\ pc = "done"
    /\ result = NULL
    /\ parser.had_error
    /\ Len(declarations) >= 1
    /\ declarations[1].type = "AST_IF_STMT"
    /\ declarations[1].then_branch.type = "AST_BLOCK_STMT"
    /\ heap = {}

\* C27: the statement loop of parse_block_statement makes progress: each of
\* its iterations moves the cursor, also when the statement gives no node
\* or reports an error in panic mode, so no parse is left inside that loop
\* with an iteration that changed nothing (the one place where the cursor
\* is marked as hung).
C27_BlockLoopAdvances ==
    /\ pc # "hung"
    /\ ~Hung(parser)

\* C28: once parser_init has run, panic mode is never set without the
\* sticky error flag: panic_mode = TRUE implies had_error = TRUE, in the
\* parser as parser_parse sees it after every declaration and after every
\* resynchronization, and in every parser a declaration begun at a later
\* token of the source leaves behind.
C28_PanicImpliesError ==
    /\ pc # "init" => (parser.panic_mode => parser.had_error)
    /\ pc \in {"loop", "check"} =>
           \A p \in Cursors(parser) :
               parser_parse_declaration(p).p.panic_mode =>
                   parser_parse_declaration(p).p.had_error

\* a declaration has just reported an error: both flags are set
C28_Witness ==
    /\ pc = "check"
    /\ parser.panic_mode
    /\ parser.had_error
    /\ Len(parser.errors) = 1

\* the place of the terminating NUL of the source text
Terminator(source) ==
    IF \E i \in 1..Len(source) : source[i] = NUL
    THEN CHOOSE i \in 1..Len(source) :
             source[i] = NUL /\ \A j \in 1..(i - 1) : source[j] # NUL
    ELSE Len(source) + 1

\* C29: the read cursor of the lexer never passes the terminating NUL of
\* the source: after every call of lexer_next_token, from the first one of
\* parser_init to the one that returns the end of the input, the cursor is
\* at or before the terminator, and a call made with the cursor at the
\* terminator returns TOKEN_EOF and leaves the cursor there.
C29_CursorWithinSource ==
    pc \in {"loop", "check", "done"} =>
        /\ parser.lexer.current <= Terminator(parser.lexer.source)
        /\ \A i \in 1..Len(parser.scan) :
               Let(parser.scan[i], LAMBDA call :
                   /\ call.lexer.current <= Terminator(call.lexer.source)
                   /\ call.lexer.current = Terminator(call.lexer.source) =>
                          /\ lexer_next_token(call.lexer).tok.type = "TOKEN_EOF"
                          /\ lexer_next_token(call.lexer).lexer.current =
                                 call.lexer.current)

\* no token lexer_next_token returns in the rest of the parse, nor the
\* current token it returned last, is a TOKEN_NEWLINE
NoNewlineToken(p) ==
    /\ p.current.type # "TOKEN_NEWLINE"
    /\ \A i \in 1..Len(p.scan) : p.scan[i].tok.type # "TOKEN_NEWLINE"

\* C30: lexer_next_token returns no TOKEN_NEWLINE for any source text, and
\* so parser_synchronize never stops because the previous token is a
\* newline: when it returns, the current token is one of the keywords that
\* begin a construct, or the end of the input.
C30_NewlineNeverStops ==
    [][/\ NoNewlineToken(parser')
       /\ Synchronize =>
              parser'.current.type \in SyncTokens \cup {"TOKEN_EOF"}]_vars

====
